---------------------------- MODULE Spec2Model ----------------------------
(***************************************************************************)
(* A model of the project-manager MCP bridge: the line protocol transport, *)
(* the request dispatcher (mcp.handleRequest / mcp.sendResponse), the      *)
(* platform registry (getClient) and the JIRA and GitLab adapters.         *)
(*                                                                         *)
(* JavaScript values are tagged records.  A JavaScript string is a         *)
(* sequence of text fragments: data the code inspects character by         *)
(* character (the platform identifier) is written one character per        *)
(* fragment, every other string is a single fragment.                      *)
(***************************************************************************)
EXTENDS Integers, Sequences, FiniteSets, TLC

VARIABLES
    env,        \* process.env, read by the adapters at call time
    stdin,      \* the input lines not yet delivered to rl.on('line')
    nread,      \* number of input lines delivered so far
    reqs,       \* one record per call of mcp.handleRequest
    out,        \* console.log: the lines written to the output stream
    diag,       \* console.error / console.warn: the diagnostic channel
    upstream,   \* the calls made to the platform SDKs
    status,     \* "running", or how the process exited
    cli,        \* the command line front-end, when it is what starts the bridge
    project     \* the issues the tracker holds when the run starts

vars == <<env, stdin, nread, reqs, out, diag, upstream, status, cli, project>>

----------------------------------------------------------------------------
(* JavaScript values *)

Undefined == [t |-> "undefined"]
Null == [t |-> "null"]
Str(s) == [t |-> "string", v |-> s]
Num(n) == [t |-> "number", v |-> n]
Bool(b) == [t |-> "boolean", v |-> b]
Obj(f) == [t |-> "object", v |-> f]
Arr(s) == [t |-> "array", v |-> s]

\* a string held in a single fragment
S(x) == Str(<<x>>)
EmptyStr == Str(<<>>)
EmptyObj == Obj(<<>>)

\* marks a property left out when an input object is built
Absent == [t |-> "absent"]
MkObj(f) == Obj([k \in {x \in DOMAIN f : f[x] # Absent} |-> f[k]])

Truthy(v) ==
    CASE v.t = "undefined" -> FALSE
      [] v.t = "null" -> FALSE
      [] v.t = "string" -> v.v # <<>>
      [] v.t = "number" -> v.v # 0
      [] v.t = "boolean" -> v.v
      [] OTHER -> TRUE

\* a || b
Or(a, b) == IF Truthy(a) THEN a ELSE b

\* reading a property of undefined or null throws a TypeError
Nullish(v) == v.t \in {"undefined", "null"}

\* o.k for a value o that is not nullish
Get(o, k) == IF o.t = "object" /\ k \in DOMAIN o.v THEN o.v[k] ELSE Undefined

Has(o, k) == o.t = "object" /\ k \in DOMAIN o.v

\* o.k = v (ignored on a primitive: the modules are not in strict mode)
Put(o, k, v) ==
    IF o.t = "object"
    THEN Obj([x \in DOMAIN o.v \cup {k} |-> IF x = k THEN v ELSE o.v[x]])
    ELSE o

\* the text a value takes inside a template literal or string concatenation
ToText(v) ==
    CASE v.t = "undefined" -> <<"undefined">>
      [] v.t = "null" -> <<"null">>
      [] v.t = "string" -> v.v
      [] v.t = "number" -> <<ToString(v.v)>>
      [] v.t = "boolean" -> IF v.v THEN <<"true">> ELSE <<"false">>
      [] v.t = "array" -> <<"[array]">>
      [] OTHER -> <<"[object Object]">>

UpperCase == <<"A","B","C","D","E","F","G","H","I","J","K","L","M",
               "N","O","P","Q","R","S","T","U","V","W","X","Y","Z">>
LowerCase == <<"a","b","c","d","e","f","g","h","i","j","k","l","m",
               "n","o","p","q","r","s","t","u","v","w","x","y","z">>

LowerChar(c) ==
    IF \E i \in DOMAIN UpperCase : UpperCase[i] = c
    THEN LowerCase[CHOOSE i \in DOMAIN UpperCase : UpperCase[i] = c]
    ELSE c

\* String.prototype.toLowerCase on the fragments of a string
ToLowerCase(s) == [i \in DOMAIN s |-> LowerChar(s[i])]

TypeErrorRead(k, base) ==
    <<"Cannot read properties of ", base, " (reading '", k, "')">>

----------------------------------------------------------------------------
(* JSON *)

RECURSIVE JsonEncode(_)
\* JSON.stringify drops the properties whose value is undefined
JsonEncode(v) ==
    IF v.t = "object"
    THEN Obj([k \in {x \in DOMAIN v.v : v.v[x].t # "undefined"} |-> JsonEncode(v.v[k])])
    ELSE IF v.t = "array"
    THEN Arr([i \in DOMAIN v.v |->
                IF v.v[i].t = "undefined" THEN Null ELSE JsonEncode(v.v[i])])
    ELSE v

\* an encoder that writes null for an undefined property
JsonStringifyUndefinedAsNull(v) ==
    [t |-> "json",
     v |-> IF v.t = "object"
           THEN Obj([k \in DOMAIN v.v |->
                       IF v.v[k].t = "undefined" THEN Null ELSE JsonEncode(v.v[k])])
           ELSE JsonEncode(v)]

\* a line of text: the JSON text of a value, or text that is no JSON
JsonStringify(v) == [t |-> "json", v |-> JsonEncode(v)]
Garbage(x) == [t |-> "garbage", v |-> x]

\* a parser that takes text that is no JSON for an empty request
JsonParseLenient(line) ==
    [ok |-> TRUE, value |-> IF line.t = "json" THEN line.v ELSE EmptyObj]

JsonParse(line) ==
    IF line.t = "json"
    THEN [ok |-> TRUE, value |-> line.v]
    ELSE [ok |-> FALSE, message |-> <<"Unexpected token in JSON: ", line.v>>]

----------------------------------------------------------------------------
(* Configuration: process.env *)

JiraName == <<"j","i","r","a">>
GitlabName == <<"g","i","t","l","a","b">>

JiraRequired == {"JIRA_URL", "JIRA_TOKEN", "JIRA_EMAIL"}
GitlabRequired == {"GITLAB_URL", "GITLAB_TOKEN", "GITLAB_PROJECT_ID"}

FullEnv ==
    [JIRA_URL |-> S("https://jira.example"), JIRA_TOKEN |-> S("jt"),
     JIRA_EMAIL |-> S("me@example"), JIRA_PROJECT |-> S("PROJ"),
     GITLAB_URL |-> S("https://gitlab.example"), GITLAB_TOKEN |-> S("gt"),
     GITLAB_PROJECT_ID |-> S("42"),
     DEFAULT_PLATFORM |-> Undefined, LOG_LEVEL |-> Undefined, NODE_ENV |-> Undefined]

EnvWith(e, k, v) == [e EXCEPT ![k] = v]

\* the configurations the bridge is started with
EnvSet ==
    {FullEnv}
    \cup {EnvWith(FullEnv, k, Undefined) : k \in JiraRequired \cup GitlabRequired}
    \cup {EnvWith(FullEnv, "JIRA_PROJECT", Undefined),
          EnvWith(FullEnv, "JIRA_TOKEN", EmptyStr),
          EnvWith(FullEnv, "DEFAULT_PLATFORM", Str(GitlabName)),
          EnvWith(EnvWith(FullEnv, "NODE_ENV", S("dev")), "LOG_LEVEL", S("debug")),
          [k \in DOMAIN FullEnv |-> Undefined]}

\* getDefaultPlatform of the command line front-end
GetDefaultPlatform(e) == Or(e.DEFAULT_PLATFORM, Str(JiraName))

\* a && b && c
And3(a, b, c) == IF ~Truthy(a) THEN a ELSE IF ~Truthy(b) THEN b ELSE c

\* a check that leaves the e-mail address out
JiraHasRequiredEnvWithoutEmail(e) == Truthy(And3(e.JIRA_URL, e.JIRA_TOKEN, e.JIRA_TOKEN))

JiraHasRequiredEnv(e) == Truthy(And3(e.JIRA_URL, e.JIRA_TOKEN, e.JIRA_EMAIL))

GitlabHasRequiredEnv(e) ==
    Truthy(And3(e.GITLAB_URL, e.GITLAB_TOKEN, e.GITLAB_PROJECT_ID))

LogLevel(e) == Or(e.LOG_LEVEL, S("info"))
IsDev(e) == e.NODE_ENV = S("dev")

----------------------------------------------------------------------------
(* The adapters.  Each operator is the part of the async function that    *)
(* runs before its await: it throws (the promise is rejected) or it makes *)
(* one call to the platform SDK.  data is the first argument as the call  *)
(* leaves it, log what the function writes to the diagnostic channel.     *)

Thrown(msg, data, log) ==
    [thrown |-> TRUE, message |-> msg, call |-> <<>>, data |-> data, log |-> log]

Calls(api, args, data, log) ==
    [thrown |-> FALSE, message |-> <<>>, call |-> [api |-> api, args |-> args],
     data |-> data, log |-> log]

\* the text each adapter function puts before the message of an error it rethrows
ErrorPrefix(op) ==
    CASE op = "jira.createIssue" -> "Error creating JIRA issue: "
      [] op = "jira.updateIssue" -> "Error updating JIRA issue: "
      [] op = "jira.searchIssues" -> "Error searching JIRA issues: "
      [] op = "gitlab.createIssue" -> "Error creating GitLab issue: "
      [] op = "gitlab.updateIssue" -> "Error updating GitLab issue: "
      [] OTHER -> "Error searching GitLab issues: "

\* catch (error) { console.error(prefix, error.message); throw error; }
AdapterCatchLog(op, msg) == <<ErrorPrefix(op)>> \o msg
Rethrown(op, msg, data) == Thrown(msg, data, <<AdapterCatchLog(op, msg)>>)

JiraConfigMessage == <<"Missing required JIRA configuration. Please check .env file.">>
GitlabConfigMessage == <<"Missing required GitLab configuration. Please check .env file.">>

BaseText(v) == IF v.t = "null" THEN "null" ELSE "undefined"

\* obj with obj[k] = v added when the source has the property at all
WithPresent(obj, k, v) == IF v # Undefined THEN Put(obj, k, v) ELSE obj

\* obj with obj[k] = v added when v is truthy
WithTruthy(obj, k, v) == IF Truthy(v) THEN Put(obj, k, v) ELSE obj

\* a payload that also forwards the parent of a sub-task
JiraCreatePayloadWithParent(issueData) ==
    LET base == Obj([project |-> Obj([key |-> Get(issueData, "projectKey")]),
                     summary |-> Get(issueData, "summary"),
                     description |-> Or(Get(issueData, "description"), EmptyStr),
                     issuetype |-> Obj([name |-> Or(Get(issueData, "issueType"), S("Task"))])])
        a == Get(issueData, "assignee")
        withAssignee == IF Truthy(a) THEN Put(base, "assignee", Obj([name |-> a])) ELSE base
        l == Get(issueData, "labels")
        withLabels == IF Truthy(l) /\ l.t = "array"
                      THEN Put(withAssignee, "labels", l) ELSE withAssignee
    IN  Obj([fields |-> WithTruthy(withLabels, "parent", Get(issueData, "parent"))])

JiraCreatePayload(issueData) ==
    LET base == Obj([project |-> Obj([key |-> Get(issueData, "projectKey")]),
                     summary |-> Get(issueData, "summary"),
                     description |-> Or(Get(issueData, "description"), EmptyStr),
                     issuetype |-> Obj([name |-> Or(Get(issueData, "issueType"), S("Task"))])])
        a == Get(issueData, "assignee")
        withAssignee == IF Truthy(a) THEN Put(base, "assignee", Obj([name |-> a])) ELSE base
        l == Get(issueData, "labels")
        withLabels == IF Truthy(l) /\ l.t = "array"
                      THEN Put(withAssignee, "labels", l) ELSE withAssignee
    IN  Obj([fields |-> withLabels])

\* createIssue that fills in the project key only once the summary has
\* been validated
JiraCreateIssueDefaultingAfterValidation(issueData, e) ==
    LET op == "jira.createIssue"
    IN  IF ~JiraHasRequiredEnv(e) THEN Rethrown(op, JiraConfigMessage, issueData)
        ELSE IF Nullish(issueData)
        THEN Rethrown(op, TypeErrorRead("projectKey", BaseText(issueData)), issueData)
        ELSE IF ~Truthy(Get(issueData, "summary"))
        THEN Rethrown(op, <<"Issue summary is required">>, issueData)
        ELSE LET data == IF ~Truthy(Get(issueData, "projectKey"))
                         THEN Put(issueData, "projectKey", e.JIRA_PROJECT)
                         ELSE issueData
             IN  Calls("jira.addNewIssue", <<JiraCreatePayload(data)>>, data, <<>>)

JiraCreateIssue(issueData, e) ==
    LET op == "jira.createIssue"
    IN  IF ~JiraHasRequiredEnv(e) THEN Rethrown(op, JiraConfigMessage, issueData)
        ELSE IF Nullish(issueData)
        THEN Rethrown(op, TypeErrorRead("projectKey", BaseText(issueData)), issueData)
        ELSE LET data == IF ~Truthy(Get(issueData, "projectKey"))
                         THEN Put(issueData, "projectKey", e.JIRA_PROJECT)
                         ELSE issueData
             IN  IF ~Truthy(Get(data, "summary"))
                 THEN Rethrown(op, <<"Issue summary is required">>, data)
                 ELSE Calls("jira.addNewIssue", <<JiraCreatePayload(data)>>, data, <<>>)

GitlabCreatePayload(issueData) ==
    LET base == Obj([title |-> Get(issueData, "title"),
                     description |-> Or(Get(issueData, "description"), EmptyStr),
                     labels |-> Or(Get(issueData, "labels"), Arr(<<>>))])
    IN  WithTruthy(WithTruthy(WithTruthy(base,
            "assignee_id", Get(issueData, "assigneeId")),
            "due_date", Get(issueData, "dueDate")),
            "weight", Get(issueData, "weight"))

\* createIssue without the check of the title
GitlabCreateIssueUnvalidated(issueData, e) ==
    LET op == "gitlab.createIssue"
    IN  IF ~GitlabHasRequiredEnv(e) THEN Rethrown(op, GitlabConfigMessage, issueData)
        ELSE IF Nullish(issueData)
        THEN Rethrown(op, TypeErrorRead("title", BaseText(issueData)), issueData)
        ELSE Calls("gitlab.Issues.create",
                   <<e.GITLAB_PROJECT_ID, GitlabCreatePayload(issueData)>>, issueData, <<>>)

\* createIssue that validates the title before it looks at the configuration
GitlabCreateIssueValidatingFirst(issueData, e) ==
    LET op == "gitlab.createIssue"
    IN  IF Nullish(issueData)
        THEN Rethrown(op, TypeErrorRead("title", BaseText(issueData)), issueData)
        ELSE IF ~Truthy(Get(issueData, "title"))
        THEN Rethrown(op, <<"Issue title is required">>, issueData)
        ELSE IF ~GitlabHasRequiredEnv(e) THEN Rethrown(op, GitlabConfigMessage, issueData)
        ELSE Calls("gitlab.Issues.create",
                   <<e.GITLAB_PROJECT_ID, GitlabCreatePayload(issueData)>>, issueData, <<>>)

GitlabCreateIssue(issueData, e) ==
    LET op == "gitlab.createIssue"
    IN  IF ~GitlabHasRequiredEnv(e) THEN Rethrown(op, GitlabConfigMessage, issueData)
        ELSE IF Nullish(issueData)
        THEN Rethrown(op, TypeErrorRead("title", BaseText(issueData)), issueData)
        ELSE IF ~Truthy(Get(issueData, "title"))
        THEN Rethrown(op, <<"Issue title is required">>, issueData)
        ELSE Calls("gitlab.Issues.create",
                   <<e.GITLAB_PROJECT_ID, GitlabCreatePayload(issueData)>>, issueData, <<>>)

\* an update payload that fills the description the way createIssue does
JiraUpdatePayloadDefaultsDescription(updateData) ==
    LET a == Get(updateData, "assignee")
        f == Put(WithTruthy(EmptyObj, "summary", Get(updateData, "summary")),
                 "description", Or(Get(updateData, "description"), EmptyStr))
    IN  Obj([fields |-> IF Truthy(a) THEN Put(f, "assignee", Obj([name |-> a])) ELSE f])

JiraUpdatePayload(updateData) ==
    LET a == Get(updateData, "assignee")
        f == WithTruthy(WithTruthy(EmptyObj,
                 "summary", Get(updateData, "summary")),
                 "description", Get(updateData, "description"))
    IN  Obj([fields |-> IF Truthy(a) THEN Put(f, "assignee", Obj([name |-> a])) ELSE f])

JiraStatusWarning ==
    <<"Status updates require transition handling - not implemented directly">>

JiraUpdateIssue(issueKey, updateData, e) ==
    LET op == "jira.updateIssue"
    IN  IF ~JiraHasRequiredEnv(e) THEN Rethrown(op, JiraConfigMessage, issueKey)
        ELSE IF ~Truthy(issueKey)
        THEN Rethrown(op, <<"Issue key is required">>, issueKey)
        ELSE IF Nullish(updateData)
        THEN Rethrown(op, TypeErrorRead("summary", BaseText(updateData)), issueKey)
        ELSE Calls("jira.updateIssue", <<issueKey, JiraUpdatePayload(updateData)>>, issueKey,
                   IF Truthy(Get(updateData, "status")) THEN <<JiraStatusWarning>> ELSE <<>>)

\* a mapping that also closes on the name of the state, 'closed'
GitlabStateEventByStateName(state) ==
    IF state \in {S("close"), S("closed")} THEN S("close") ELSE S("reopen")

GitlabStateEvent(state) == IF state = S("close") THEN S("close") ELSE S("reopen")

GitlabUpdatePayload(updateData) ==
    LET st == Get(updateData, "state")
        f == WithTruthy(WithTruthy(WithTruthy(WithTruthy(EmptyObj,
                 "title", Get(updateData, "title")),
                 "description", Get(updateData, "description")),
                 "assignee_id", Get(updateData, "assigneeId")),
                 "labels", Get(updateData, "labels"))
    IN  IF Truthy(st) THEN Put(f, "state_event", GitlabStateEvent(st)) ELSE f

\* updateIssue without the check of the issue id
GitlabUpdateIssueUnvalidated(issueId, updateData, e) ==
    LET op == "gitlab.updateIssue"
    IN  IF ~GitlabHasRequiredEnv(e) THEN Rethrown(op, GitlabConfigMessage, issueId)
        ELSE IF Nullish(updateData)
        THEN Rethrown(op, TypeErrorRead("title", BaseText(updateData)), issueId)
        ELSE Calls("gitlab.Issues.edit",
                   <<e.GITLAB_PROJECT_ID, issueId, GitlabUpdatePayload(updateData)>>,
                   issueId, <<>>)

GitlabUpdateIssue(issueId, updateData, e) ==
    LET op == "gitlab.updateIssue"
    IN  IF ~GitlabHasRequiredEnv(e) THEN Rethrown(op, GitlabConfigMessage, issueId)
        ELSE IF ~Truthy(issueId)
        THEN Rethrown(op, <<"Issue ID is required">>, issueId)
        ELSE IF Nullish(updateData)
        THEN Rethrown(op, TypeErrorRead("title", BaseText(updateData)), issueId)
        ELSE Calls("gitlab.Issues.edit",
                   <<e.GITLAB_PROJECT_ID, issueId, GitlabUpdatePayload(updateData)>>,
                   issueId, <<>>)

JiraDefaultFields ==
    Arr(<<S("summary"), S("status"), S("assignee"), S("description"),
          S("created"), S("updated")>>)

JiraSearchOptions(jql, options) ==
    Obj([jql |-> jql,
         maxResults |-> Or(Get(options, "maxResults"), Num(50)),
         startAt |-> Or(Get(options, "startAt"), Num(0)),
         fields |-> Or(Get(options, "fields"), JiraDefaultFields)])

\* options = {} stands in for an undefined argument only
JiraSearchIssues(jql, optionsArg, e) ==
    LET op == "jira.searchIssues"
        options == IF optionsArg = Undefined THEN EmptyObj ELSE optionsArg
    IN  IF ~JiraHasRequiredEnv(e) THEN Rethrown(op, JiraConfigMessage, jql)
        ELSE IF Nullish(options)
        THEN Rethrown(op, TypeErrorRead("maxResults", BaseText(options)), jql)
        ELSE Calls("jira.searchJira", <<jql, JiraSearchOptions(jql, options)>>, jql, <<>>)

\* search options with the page size of the other platform as the default
GitlabSearchOptionsPageSize50(params, projectId) ==
    LET base == Obj([projectId |-> projectId,
                     scope |-> S("all"),
                     state |-> Or(Get(params, "state"), S("opened")),
                     per_page |-> Or(Get(params, "maxResults"), Num(50)),
                     page |-> Or(Get(params, "page"), Num(1))])
    IN  WithTruthy(WithTruthy(WithTruthy(WithTruthy(base,
            "labels", Get(params, "labels")),
            "author_username", Get(params, "author")),
            "assignee_username", Get(params, "assignee")),
            "search", Get(params, "search"))

GitlabSearchOptions(params, projectId) ==
    LET base == Obj([projectId |-> projectId,
                     scope |-> S("all"),
                     state |-> Or(Get(params, "state"), S("opened")),
                     per_page |-> Or(Get(params, "maxResults"), Num(20)),
                     page |-> Or(Get(params, "page"), Num(1))])
    IN  WithTruthy(WithTruthy(WithTruthy(WithTruthy(base,
            "labels", Get(params, "labels")),
            "author_username", Get(params, "author")),
            "assignee_username", Get(params, "assignee")),
            "search", Get(params, "search"))

GitlabSearchIssues(paramsArg, e) ==
    LET op == "gitlab.searchIssues"
        params == IF paramsArg = Undefined THEN EmptyObj ELSE paramsArg
    IN  IF ~GitlabHasRequiredEnv(e) THEN Rethrown(op, GitlabConfigMessage, paramsArg)
        ELSE IF Nullish(params)
        THEN Rethrown(op, TypeErrorRead("state", BaseText(params)), paramsArg)
        ELSE Calls("gitlab.Issues.all",
                   <<GitlabSearchOptions(params, e.GITLAB_PROJECT_ID)>>, paramsArg, <<>>)

----------------------------------------------------------------------------
(* The platform registry and the dispatcher *)

\* a default taken from the configuration
DefaultPlatformFromEnv == Or(env.DEFAULT_PLATFORM, Str(JiraName))

\* the platform used when the request names none
DefaultPlatform == Str(JiraName)

\* (params && params.platform) || 'jira'
PlatformOf(params) ==
    Or(IF Truthy(params) THEN Get(params, "platform") ELSE params, DefaultPlatform)

NoClient(msg) == [thrown |-> TRUE, message |-> msg, client |-> "none"]
Client(c) == [thrown |-> FALSE, message |-> <<>>, client |-> c]

\* a registry that reports the identifier as the request wrote it
GetClientEchoesIdentifier(platformArg) ==
    LET platform == IF platformArg = Undefined THEN Str(JiraName) ELSE platformArg
    IN  IF platform.t # "string"
        THEN NoClient(<<"platform.toLowerCase is not a function">>)
        ELSE LET p == ToLowerCase(platform.v)
             IN  IF p = JiraName THEN Client("jira")
                 ELSE IF p = GitlabName THEN Client("gitlab")
                 ELSE NoClient(<<"Unsupported platform: ">> \o platform.v)

\* a registry that compares the identifier as written
GetClientCaseSensitive(platformArg) ==
    LET platform == IF platformArg = Undefined THEN Str(JiraName) ELSE platformArg
    IN  IF platform.t # "string"
        THEN NoClient(<<"platform.toLowerCase is not a function">>)
        ELSE IF platform.v = JiraName THEN Client("jira")
        ELSE IF platform.v = GitlabName THEN Client("gitlab")
        ELSE NoClient(<<"Unsupported platform: ">> \o ToLowerCase(platform.v))

GetClient(platformArg) ==
    LET platform == IF platformArg = Undefined THEN Str(JiraName) ELSE platformArg
    IN  IF platform.t # "string"
        THEN NoClient(<<"platform.toLowerCase is not a function">>)
        ELSE LET p == ToLowerCase(platform.v)
             IN  IF p = JiraName THEN Client("jira")
                 ELSE IF p = GitlabName THEN Client("gitlab")
                 ELSE NoClient(<<"Unsupported platform: ">> \o p)

ErrorObj(msg) == Obj([message |-> Str(msg)])

\* the response object mcp.sendResponse builds and prints
SendResponse(id, result, error) ==
    Obj([id |-> id,
         result |-> IF Truthy(error) THEN Null ELSE result,
         error |-> IF Truthy(error)
                   THEN Obj([message |-> Get(error, "message")]) ELSE Null])

\* What one run of handleRequest up to its first await, or one resumption
\* after it, does: the diagnostic lines it writes, the sendResponse calls
\* it makes, the adapter function it calls and how it ends.
Step(kind, log, send, op, adapter) ==
    [kind |-> kind, log |-> log, send |-> send, op |-> op, adapter |-> adapter]

NoAdapter == Thrown(<<>>, Undefined, <<>>)

\* a catch block that answers without writing the diagnostic line
CaughtSilently(request, msg, pre) ==
    IF Nullish(request)
    THEN Step("rejected", pre, <<>>, "none", NoAdapter)
    ELSE Step("responded", pre,
              <<SendResponse(Get(request, "id"), Null, ErrorObj(msg))>>,
              "none", NoAdapter)

\* the catch block of handleRequest, entered with an error of message msg;
\* reading request.id throws again when the request is null
Caught(request, msg, pre) ==
    LET log == pre \o << <<"[ERROR] ">> \o msg >>
    IN  IF Nullish(request)
        THEN Step("rejected", log, <<>>, "none", NoAdapter)
        ELSE Step("responded", log,
                  <<SendResponse(Get(request, "id"), Null, ErrorObj(msg))>>,
                  "none", NoAdapter)

Awaits(op, adapter, pre) == Step("await", pre \o adapter.log, <<>>, op, adapter)

DebugLog(request, e) ==
    IF IsDev(e) /\ LogLevel(e) = S("debug")
    THEN << <<"[DEBUG] Received request: ", "<request JSON>">> >>
    ELSE <<>>

UpdateIssueCase(request, platform, client, params, e, pre) ==
    IF platform = Str(JiraName)
    THEN IF Nullish(params)
         THEN Caught(request, TypeErrorRead("issueKey", BaseText(params)), pre)
         ELSE Awaits("jira.updateIssue",
                     JiraUpdateIssue(Get(params, "issueKey"), Get(params, "updateData"), e),
                     pre)
    ELSE IF platform = Str(GitlabName)
    THEN Awaits("gitlab.updateIssue",
                GitlabUpdateIssue(Get(params, "issueId"), Get(params, "updateData"), e),
                pre)
    ELSE IF client = "jira"
    THEN Awaits("jira.updateIssue", JiraUpdateIssue(Undefined, Undefined, e), pre)
    ELSE Awaits("gitlab.updateIssue", GitlabUpdateIssue(Undefined, Undefined, e), pre)

SearchIssuesCase(request, platform, params, e, pre) ==
    IF platform = Str(JiraName)
    THEN IF Nullish(params)
         THEN Caught(request, TypeErrorRead("jql", BaseText(params)), pre)
         ELSE Awaits("jira.searchIssues",
                     JiraSearchIssues(Get(params, "jql"), Get(params, "options"), e), pre)
    ELSE IF platform = Str(GitlabName)
    THEN Awaits("gitlab.searchIssues", GitlabSearchIssues(params, e), pre)
    ELSE Step("responded", pre,
              <<SendResponse(Get(request, "id"), Undefined, Undefined)>>,
              "none", NoAdapter)

HasRequiredConfigCase(request, client, e, pre) ==
    LET hasConfig == IF client = "jira" THEN JiraHasRequiredEnv(e)
                     ELSE GitlabHasRequiredEnv(e)
    IN  Step("responded", pre,
             <<SendResponse(Get(request, "id"),
                            Obj([hasRequiredConfig |-> Bool(hasConfig)]), Undefined)>>,
             IF client = "jira" THEN "jira.hasRequiredEnv" ELSE "gitlab.hasRequiredEnv",
             NoAdapter)

\* mcp.handleRequest, from its call to its first await
HandleRequest(request, e) ==
    IF Nullish(request)
    THEN Caught(request, TypeErrorRead("id", BaseText(request)), <<>>)
    ELSE LET method == Get(request, "method")
             params == Get(request, "params")
             pre == DebugLog(request, e)
             platform == PlatformOf(params)
             reg == GetClient(platform)
         IN  IF reg.thrown THEN Caught(request, reg.message, pre)
             ELSE CASE method = S("create_issue") ->
                         IF reg.client = "jira"
                         THEN Awaits("jira.createIssue", JiraCreateIssue(params, e), pre)
                         ELSE Awaits("gitlab.createIssue", GitlabCreateIssue(params, e), pre)
                    [] method = S("update_issue") ->
                         UpdateIssueCase(request, platform, reg.client, params, e, pre)
                    [] method = S("search_issues") ->
                         SearchIssuesCase(request, platform, params, e, pre)
                    [] method = S("has_required_config") ->
                         HasRequiredConfigCase(request, reg.client, e, pre)
                    [] OTHER ->
                         Caught(request, <<"Unknown method: ">> \o ToText(method), pre)

\* a resumption that answers a failure with a text of its own
ResumedRedacted(request, o) ==
    IF o.ok
    THEN Step("responded", <<>>,
              <<SendResponse(Get(request, "id"), o.value, Undefined)>>,
              "none", NoAdapter)
    ELSE Caught(request, <<"Internal error">>, <<>>)

\* handleRequest resumed after its await: the adapter's promise has settled
\* with outcome o
Resumed(request, o) ==
    IF o.ok
    THEN Step("responded", <<>>,
              <<SendResponse(Get(request, "id"), o.value, Undefined)>>,
              "none", NoAdapter)
    ELSE Caught(request, o.message, <<>>)

----------------------------------------------------------------------------
(* The input lines the bridge is run on *)

MaxLines == 2

Req(id, method, params) == MkObj([id |-> id, method |-> method, params |-> params])

PlatformInputs ==
    {Absent, Str(JiraName), Str(<<"J","i","r","a">>),
     Str(GitlabName), Str(<<"G","i","t","L","a","b">>),
     Str(<<"t","r","e","l","l","o">>), Str(<<"T","r","e","l","l","o">>),
     EmptyStr, Num(5)}

CreateParams ==
    {MkObj([platform |-> p, summary |-> s, title |-> t, projectKey |-> k]) :
        p \in PlatformInputs, s \in {Absent, S("Sum"), EmptyStr},
        t \in {Absent, S("Tit")}, k \in {Absent, S("KEY")}}

UpdateDataInputs ==
    {Absent, Null}
    \cup {MkObj([summary |-> s, title |-> t, state |-> st]) :
            s \in {Absent, S("Sum"), EmptyStr}, t \in {Absent, S("Tit")},
            st \in {Absent, S("close"), S("closed")}}
    \cup {MkObj([description |-> S("Desc"), assignee |-> S("ann"), status |-> S("Done")]),
          MkObj([description |-> S("Desc"), assigneeId |-> Num(3),
                 labels |-> Arr(<<S("bug")>>)]),
          MkObj([assigneeId |-> Num(0), labels |-> Null, description |-> EmptyStr])}

UpdateParams ==
    {MkObj([platform |-> p, issueKey |-> k, issueId |-> i, updateData |-> u]) :
        p \in PlatformInputs, k \in {Absent, S("PROJ-7")}, i \in {Absent, Num(7)},
        u \in UpdateDataInputs}

SearchParams ==
    {MkObj([platform |-> p, jql |-> q, options |-> o, search |-> s]) :
        p \in PlatformInputs, q \in {Absent, S("project = PROJ")},
        o \in {Absent, Null, Obj([maxResults |-> Num(10)])},
        s \in {Absent, S("crash")}}

\* searches that set the options the adapters fill in, some with falsy values
JiraSearchOptionInputs ==
    {MkObj([maxResults |-> m, startAt |-> a, fields |-> f]) :
        m \in {Absent, Num(10), Num(0)}, a \in {Absent, Num(5), Num(0)},
        f \in {Absent, Arr(<<S("summary")>>)}}

GitlabSearchExtras ==
    {[labels |-> Absent, author |-> Absent, assignee |-> Absent],
     [labels |-> S("bug"), author |-> S("ann"), assignee |-> S("bob")],
     [labels |-> Absent, author |-> S("ann"), assignee |-> EmptyStr]}

SearchOptionParams ==
    {MkObj([jql |-> S("project = PROJ"), options |-> o]) : o \in JiraSearchOptionInputs}
    \cup {MkObj([platform |-> Str(GitlabName), state |-> st, maxResults |-> m, page |-> pg,
                 labels |-> x.labels, author |-> x.author, assignee |-> x.assignee]) :
             st \in {Absent, S("closed"), EmptyStr}, m \in {Absent, Num(10), Num(0)},
             pg \in {Absent, Num(2)}, x \in GitlabSearchExtras}

ConfigParams == {MkObj([platform |-> p]) : p \in PlatformInputs}

OtherParams == {Absent, Null, S("text")}

KnownMethods ==
    {S("create_issue"), S("update_issue"), S("search_issues"), S("has_required_config")}

UnknownMethods == {Absent, S("delete_issue"), S("CREATE_ISSUE"), Num(7)}

\* the requests read one to a run
Requests ==
    {Req(S("1"), S("create_issue"), p) : p \in CreateParams}
    \cup {Req(S("1"), S("update_issue"), p) : p \in UpdateParams}
    \cup {Req(S("1"), S("search_issues"), p) : p \in SearchParams \cup SearchOptionParams}
    \cup {Req(S("1"), S("has_required_config"), p) : p \in ConfigParams}
    \cup {Req(S("1"), m, p) : m \in UnknownMethods, p \in ConfigParams}
    \cup {Req(i, m, p) : i \in {Absent, Null, S("1")},
                         m \in KnownMethods \cup UnknownMethods, p \in OtherParams}

\* decoded values that are no objects
NonObjects == {Null, Num(5), S("text"), Arr(<<>>)}

\* the requests read several to a run
CoreRequests ==
    {Req(S("1"), S("create_issue"), MkObj([summary |-> S("Sum")])),
     Req(S("2"), S("search_issues"),
         MkObj([platform |-> Str(GitlabName), search |-> S("crash")])),
     Req(Absent, S("create_issue"), MkObj([platform |-> Str(GitlabName)])),
     Req(S("2"), S("has_required_config"), Absent),
     Req(S("1"), S("update_issue"),
         MkObj([issueKey |-> S("PROJ-7"), updateData |-> MkObj([summary |-> S("Sum")])])),
     Req(S("2"), S("update_issue"),
         MkObj([issueKey |-> S("PROJ-8"), updateData |-> MkObj([summary |-> S("Sum")])])),
     Req(S("1"), S("delete_issue"), Absent)}

GarbageLine == Garbage("{invalid json}")

Lines == {JsonStringify(r) : r \in Requests \cup NonObjects} \cup {GarbageLine}

CoreLines == {JsonStringify(r) : r \in CoreRequests \cup {Null}} \cup {GarbageLine}

Streams ==
    {<<l>> : l \in Lines}
    \cup UNION {[1..n -> CoreLines] : n \in 0..MaxLines}

----------------------------------------------------------------------------
(* The platform SDKs: a call made is answered or fails *)

\* the answer of the platform is decoded from a JSON body: a JSON value
UpstreamValue(call) == JsonEncode(Obj([api |-> S(call.api), args |-> Arr(call.args)]))

UpstreamError(call) ==
    IF call.api \in {"jira.addNewIssue", "jira.updateIssue", "jira.searchJira"}
    THEN <<"JIRA API error">> ELSE <<"GitLab API error">>

----------------------------------------------------------------------------
(* The bridge process *)

StartupLog(e) ==
    << <<"[INFO] MCP server started at ", "<time>">>,
       <<"[INFO] Environment: ">> \o ToText(Or(e.NODE_ENV, S("development"))),
       <<"[INFO] Log level: ">> \o ToText(LogLevel(e)) >>

\* the bridge started on its own, not by the command line front-end
NoCommand == [pc |-> "none"]

Init ==
    /\ env \in EnvSet
    /\ stdin \in Streams
    /\ nread = 0
    /\ reqs = <<>>
    /\ out = <<>>
    /\ diag = StartupLog(env)
    /\ upstream = <<>>
    /\ status = "running"
    /\ cli = NoCommand
    /\ project = <<>>

Resolved(v) == [ok |-> TRUE, value |-> v, message |-> <<>>]
Rejected(msg) == [ok |-> FALSE, value |-> Undefined, message |-> msg]
NoOutcome == [ok |-> FALSE, value |-> Undefined, message |-> <<"pending">>]

\* the lines console.log writes for the sendResponse calls of a step
Written(i, step) == [k \in DOMAIN step.send |-> [req |-> i, line |-> JsonStringify(step.send[k])]]

\* a bridge that remembers the platform of the request before and uses it
\* for a request that names none
DispatchStickyPlatform(line, request) ==
    LET i == Len(reqs) + 1
        last == IF reqs = <<>> THEN Undefined
                ELSE Get(Get(reqs[Len(reqs)].request, "params"), "platform")
        params == Get(request, "params")
        effective == IF params.t = "object" /\ ~Has(params, "platform") /\ Truthy(last)
                     THEN Put(request, "params", Put(params, "platform", last))
                     ELSE request
        step == HandleRequest(effective, env)
        st == IF step.kind # "await" THEN step.kind
              ELSE IF step.adapter.thrown THEN "settled" ELSE "awaiting"
        outcome == IF step.kind = "await" /\ step.adapter.thrown
                   THEN Rejected(step.adapter.message) ELSE NoOutcome
    IN  /\ reqs' = Append(reqs, [line |-> line, request |-> request, st |-> st,
                                 op |-> step.op, data |-> step.adapter.data,
                                 outcome |-> outcome])
        /\ diag' = diag \o step.log
        /\ out' = out \o Written(i, step)
        /\ upstream' = IF st = "awaiting"
                       THEN Append(upstream, [req |-> i, api |-> step.adapter.call.api,
                                              args |-> step.adapter.call.args])
                       ELSE upstream

\* handleRequest is called with a decoded value
Dispatch(line, request) ==
    LET i == Len(reqs) + 1
        step == HandleRequest(request, env)
        st == IF step.kind # "await" THEN step.kind
              ELSE IF step.adapter.thrown THEN "settled" ELSE "awaiting"
        outcome == IF step.kind = "await" /\ step.adapter.thrown
                   THEN Rejected(step.adapter.message) ELSE NoOutcome
    IN  /\ reqs' = Append(reqs, [line |-> line, request |-> request, st |-> st,
                                 op |-> step.op, data |-> step.adapter.data,
                                 outcome |-> outcome])
        /\ diag' = diag \o step.log
        /\ out' = out \o Written(i, step)
        /\ upstream' = IF st = "awaiting"
                       THEN Append(upstream, [req |-> i, api |-> step.adapter.call.api,
                                              args |-> step.adapter.call.args])
                       ELSE upstream

\* a transport that sets a line aside while an adapter call is pending
ReadLineHeldBack ==
    /\ status = "running"
    /\ stdin # <<>>
    /\ stdin' = Tail(stdin)
    /\ nread' = nread + 1
    /\ LET parsed == JsonParse(Head(stdin))
       IN  IF parsed.ok /\ \A i \in DOMAIN reqs : reqs[i].st # "awaiting"
           THEN Dispatch(nread + 1, parsed.value)
           ELSE IF parsed.ok
           THEN UNCHANGED <<reqs, out, upstream, diag, project>>
           ELSE /\ diag' = Append(diag, <<"[ERROR] Failed to parse request: ">>
                                        \o parsed.message)
                /\ UNCHANGED <<reqs, out, upstream, project>>
    /\ UNCHANGED <<env, status, cli, project>>

\* rl.on('line', ...)
ReadLine ==
    /\ status = "running"
    /\ stdin # <<>>
    /\ stdin' = Tail(stdin)
    /\ nread' = nread + 1
    /\ LET parsed == JsonParse(Head(stdin))
       IN  IF parsed.ok
           THEN Dispatch(nread + 1, parsed.value)
           ELSE /\ diag' = Append(diag, <<"[ERROR] Failed to parse request: ">>
                                        \o parsed.message)
                /\ UNCHANGED <<reqs, out, upstream, project>>
    /\ UNCHANGED <<env, status, cli, project>>

\* no continuation is waiting to run: the microtask queue is drained before
\* the next network event is handled
NoMicrotask == \A i \in DOMAIN reqs : reqs[i].st # "settled"

UpstreamCall(i) == CHOOSE c \in DOMAIN upstream : upstream[c].req = i

\* the platform answers the call of request i
UpstreamResolves(i) ==
    /\ status = "running"
    /\ reqs[i].st = "awaiting"
    /\ NoMicrotask
    /\ reqs' = [reqs EXCEPT ![i].st = "settled",
                            ![i].outcome = Resolved(UpstreamValue(upstream[UpstreamCall(i)]))]
    /\ UNCHANGED <<env, stdin, nread, out, diag, upstream, status, cli, project>>

\* the call of request i fails; the adapter's catch logs and rethrows
UpstreamRejects(i) ==
    /\ status = "running"
    /\ reqs[i].st = "awaiting"
    /\ NoMicrotask
    /\ LET msg == UpstreamError(upstream[UpstreamCall(i)])
       IN  /\ reqs' = [reqs EXCEPT ![i].st = "settled", ![i].outcome = Rejected(msg)]
           /\ diag' = Append(diag, AdapterCatchLog(reqs[i].op, msg))
    /\ UNCHANGED <<env, stdin, nread, out, upstream, status, cli, project>>

\* a continuation that answers under the id of the request received last
ResumeLatestRequest(i) ==
    /\ status = "running"
    /\ reqs[i].st = "settled"
    /\ LET step == Resumed(reqs[Len(reqs)].request, reqs[i].outcome)
       IN  /\ reqs' = [reqs EXCEPT ![i].st = step.kind]
           /\ diag' = diag \o step.log
           /\ out' = out \o Written(i, step)
    /\ UNCHANGED <<env, stdin, nread, upstream, status, cli, project>>

\* handleRequest continues after its await
Resume(i) ==
    /\ status = "running"
    /\ reqs[i].st = "settled"
    /\ LET step == Resumed(reqs[i].request, reqs[i].outcome)
       IN  /\ reqs' = [reqs EXCEPT ![i].st = step.kind]
           /\ diag' = diag \o step.log
           /\ out' = out \o Written(i, step)
    /\ UNCHANGED <<env, stdin, nread, upstream, status, cli, project>>

\* a rejected handleRequest promise has no handler: process.on('uncaughtException');
\* rejections are reported once the microtask queue is empty
UnhandledRejection ==
    /\ status = "running"
    /\ NoMicrotask
    /\ \E i \in DOMAIN reqs : reqs[i].st = "rejected"
    /\ diag' = diag \o << <<"[FATAL] Uncaught exception: ", "<message>">>, <<"<stack>">> >>
    /\ status' = "exit 1"
    /\ UNCHANGED <<env, stdin, nread, reqs, out, upstream, cli, project>>

\* process.on('SIGINT'): a signal is handled between two turns of the event
\* loop, never before a waiting continuation
Sigint ==
    /\ status = "running"
    /\ NoMicrotask
    /\ diag' = Append(diag, <<"[INFO] Shutting down MCP server...">>)
    /\ status' = "exit 0"
    /\ UNCHANGED <<env, stdin, nread, reqs, out, upstream, cli, project>>

Next ==
    \/ ReadLine
    \/ \E i \in DOMAIN reqs : UpstreamResolves(i)
    \/ \E i \in DOMAIN reqs : UpstreamRejects(i)
    \/ \E i \in DOMAIN reqs : Resume(i)
    \/ UnhandledRejection
    \/ Sigint

Spec == Init /\ [][Next]_vars

\* the runs in which several lines arrive
InitStreamed ==
    /\ env \in {FullEnv, EnvWith(FullEnv, "GITLAB_TOKEN", Undefined)}
    /\ stdin \in UNION {[1..n -> CoreLines] : n \in 0..MaxLines}
    /\ nread = 0
    /\ reqs = <<>>
    /\ out = <<>>
    /\ diag = StartupLog(env)
    /\ upstream = <<>>
    /\ status = "running"
    /\ cli = NoCommand
    /\ project = <<>>

\* requests that exercise the fields the adapters map, one to a run
JiraCreateInputs ==
    {MkObj([summary |-> s, projectKey |-> k, description |-> d, issueType |-> t,
            assignee |-> a, labels |-> l, parent |-> pa]) :
        s \in {Absent, S("Sum")}, k \in {Absent, S("KEY")}, d \in {Absent, S("Desc")},
        t \in {Absent, S("Sub-task")}, a \in {Absent, S("ann"), EmptyStr},
        l \in {Absent, Arr(<<S("bug")>>), S("bug")},
        pa \in {Absent, Obj([key |-> S("PROJ-1")])}}

JiraUpdateDataInputs ==
    {MkObj([summary |-> s, description |-> d, assignee |-> a]) :
        s \in {Absent, S("Sum"), EmptyStr}, d \in {Absent, S("Desc"), EmptyStr},
        a \in {Absent, S("ann"), Null}}

GitlabUpdateDataInputs ==
    {MkObj([title |-> t, description |-> d, assigneeId |-> a, labels |-> l, state |-> st]) :
        t \in {Absent, S("Tit"), EmptyStr}, d \in {Absent, EmptyStr},
        a \in {Absent, Num(3), Num(0)}, l \in {Absent, Null},
        st \in {Absent, S("close"), S("closed"), S("opened"), EmptyStr}}

AdapterRequests ==
    {Req(S("1"), S("create_issue"), p) : p \in JiraCreateInputs}
    \cup {Req(S("1"), S("update_issue"),
               MkObj([issueKey |-> S("PROJ-7"), updateData |-> u])) :
             u \in JiraUpdateDataInputs}
    \cup {Req(S("1"), S("update_issue"),
               MkObj([platform |-> Str(GitlabName), issueId |-> Num(7), updateData |-> u])) :
             u \in GitlabUpdateDataInputs}

InitAdapters ==
    /\ env \in {FullEnv, EnvWith(FullEnv, "JIRA_PROJECT", Undefined),
                 EnvWith(FullEnv, "JIRA_EMAIL", Undefined),
                 EnvWith(FullEnv, "GITLAB_URL", Undefined)}
    /\ stdin \in {<<JsonStringify(r)>> : r \in AdapterRequests \cup {Null}}
    /\ nread = 0
    /\ reqs = <<>>
    /\ out = <<>>
    /\ diag = StartupLog(env)
    /\ upstream = <<>>
    /\ status = "running"
    /\ cli = NoCommand
    /\ project = <<>>

\* the bridge run on one request that reaches an adapter
SpecAdapters == InitAdapters /\ [][Next]_vars

\* the event loop runs every continuation that is waiting
SpecFair ==
    /\ InitStreamed
    /\ [][Next]_vars
    /\ \A i \in 1..MaxLines : WF_vars(i \in DOMAIN reqs /\ Resume(i))

----------------------------------------------------------------------------
(* The command line front-end.  A command builds the arguments of           *)
(* executeMcpCommand, which starts the bridge as a child process, writes    *)
(* one request line to its input and closes the input; the variables of     *)
(* the bridge are then the state of that child.                             *)

CliEnvSet ==
    {FullEnv,
     EnvWith(FullEnv, "GITLAB_TOKEN", Undefined),
     EnvWith(FullEnv, "JIRA_PROJECT", Undefined),
     EnvWith(FullEnv, "DEFAULT_PLATFORM", Str(GitlabName)),
     EnvWith(FullEnv, "NODE_ENV", S("test")),
     EnvWith(EnvWith(FullEnv, "NODE_ENV", S("dev")), "LOG_LEVEL", S("debug"))}

CliCommandNames == {"check-config", "list", "create"}

\* the values given with -P; Absent when the option is not given
CliPlatformOptions ==
    {Absent, Str(JiraName), Str(GitlabName), Str(<<"J","i","r","a">>),
     Str(<<"t","r","e","l","l","o">>)}

\* command.parent.opts().platform || getDefaultPlatform()
CliPlatform(option, e) ==
    Or(IF option = Absent THEN GetDefaultPlatform(e) ELSE option, GetDefaultPlatform(e))

CommandThrows(msg) ==
    [thrown |-> TRUE, message |-> msg, method |-> Undefined, params |-> Undefined]

CommandCalls(method, params) ==
    [thrown |-> FALSE, message |-> <<>>, method |-> method, params |-> params]

ProjectKeyRequired ==
    <<"Project key is required. Use --project option or set JIRA_PROJECT in .env">>

ProjectIdRequired ==
    <<"Project ID is required. Use --project option or set GITLAB_PROJECT_ID in .env">>

\* the list command run without --project, --limit and --state
ListCommand(platform, e) ==
    IF platform = Str(JiraName)
    THEN IF ~Truthy(e.JIRA_PROJECT) THEN CommandThrows(ProjectKeyRequired)
         ELSE CommandCalls(S("search_issues"),
                  Obj([jql |-> Str(<<"project=">> \o ToText(e.JIRA_PROJECT)
                                   \o <<" ORDER BY created DESC">>),
                       options |-> Obj([maxResults |-> Num(10)]),
                       platform |-> platform]))
    ELSE IF platform = Str(GitlabName)
    THEN IF ~Truthy(e.GITLAB_PROJECT_ID) THEN CommandThrows(ProjectIdRequired)
         ELSE CommandCalls(S("search_issues"),
                  Obj([state |-> S("opened"), maxResults |-> Num(10),
                       platform |-> platform]))
    ELSE CommandThrows(<<"Unsupported platform: ">> \o ToText(platform))

\* the create command run with --title T and no other option
CreateCommand(platform, e) ==
    IF platform = Str(JiraName)
    THEN IF ~Truthy(e.JIRA_PROJECT) THEN CommandThrows(ProjectKeyRequired)
         ELSE CommandCalls(S("create_issue"),
                  Obj([projectKey |-> e.JIRA_PROJECT, summary |-> S("T"),
                       description |-> Undefined, platform |-> platform]))
    ELSE IF platform = Str(GitlabName)
    THEN CommandCalls(S("create_issue"),
             Obj([title |-> S("T"), description |-> Undefined, platform |-> platform]))
    ELSE CommandThrows(<<"Unsupported platform: ">> \o ToText(platform))

\* what a command does before it awaits executeMcpCommand
CommandCall(command, platform, e) ==
    CASE command = "check-config" ->
            CommandCalls(S("has_required_config"), Obj([platform |-> platform]))
      [] command = "list" -> ListCommand(platform, e)
      [] OTHER -> CreateCommand(platform, e)

\* new Error(v).message
ErrorMessage(v) == IF v.t = "undefined" THEN <<>> ELSE ToText(v)

ExitCode(s) == IF s = "exit 0" THEN 0 ELSE 1

\* a close handler that resolves with the result whatever the error field
SettleOnCloseIgnoringError(code, lines) ==
    IF code # 0 /\ lines = <<>>
    THEN Rejected(<<"MCP server exited with code ", ToString(code), ": ", "<errorData>">>)
    ELSE IF Len(lines) # 1 \/ Nullish(JsonParse(lines[1].line).value)
    THEN Rejected(<<"Failed to parse MCP response: ", "<message>">>)
    ELSE Resolved(Get(JsonParse(lines[1].line).value, "result"))

\* mcpServer.on('close'): how the promise of executeMcpCommand is settled.
\* responseData is the lines the child wrote; no line, or several lines,
\* are not one JSON text.
SettleOnClose(code, lines) ==
    IF code # 0 /\ lines = <<>>
    THEN Rejected(<<"MCP server exited with code ", ToString(code), ": ", "<errorData>">>)
    ELSE IF Len(lines) # 1 \/ Nullish(JsonParse(lines[1].line).value)
    THEN Rejected(<<"Failed to parse MCP response: ", "<message>">>)
    ELSE LET response == JsonParse(lines[1].line).value
         IN  IF Truthy(Get(response, "error"))
             THEN Rejected(ErrorMessage(Get(Get(response, "error"), "message")))
             ELSE Resolved(Get(response, "result"))

\* the catch block of a command: process.exit(1), or the error thrown on
\* when run under the test convention
ExitOnError(e) == IF e.NODE_ENV # S("test") THEN "exit 1" ELSE "thrown"

CommandFails(msg) ==
    cli' = [cli EXCEPT !.pc = "failed",
                       !.stderr = Append(@, <<"Error: ">> \o msg),
                       !.exit = ExitOnError(env)]

InitCli ==
    /\ env \in CliEnvSet
    /\ stdin = <<>>
    /\ nread = 0
    /\ reqs = <<>>
    /\ out = <<>>
    /\ diag = <<>>
    /\ upstream = <<>>
    /\ status = "not started"
    /\ cli \in {[pc |-> "idle", command |-> c, option |-> o, spawns |-> 0,
                 written |-> 0, ended |-> FALSE, outcome |-> NoOutcome,
                 stderr |-> <<>>, exit |-> "none", sent |-> <<>>, closed |-> <<>>] :
                    c \in CliCommandNames, o \in CliPlatformOptions}
    /\ project = <<>>

\* executeMcpCommand up to the return of its promise: spawn a new child,
\* write the request, end the child's input; c is the state the command
\* is in when it makes the call
ExecuteMcpCommandFrom(c, method, params) ==
    /\ status' = "running"
    /\ diag' = StartupLog(env)
    /\ stdin' = <<JsonStringify(Req(S("<now>"), method, params))>>
    /\ nread' = 0
    /\ reqs' = <<>>
    /\ out' = <<>>
    /\ upstream' = <<>>
    /\ cli' = [c EXCEPT !.pc = "waiting", !.spawns = @ + 1,
                        !.written = @ + 1, !.ended = TRUE,
                        !.sent = Append(@, Req(S("<now>"), method, params))]
    /\ UNCHANGED <<env, project>>

ExecuteMcpCommand(method, params) == ExecuteMcpCommandFrom(cli, method, params)

\* the action callback of a command, up to its await
RunCommand ==
    /\ cli.pc = "idle"
    /\ LET c == CommandCall(cli.command, CliPlatform(cli.option, env), env)
       IN  IF c.thrown
           THEN /\ CommandFails(c.message)
                /\ UNCHANGED <<env, stdin, nread, reqs, out, diag, upstream, status, project>>
           ELSE ExecuteMcpCommand(c.method, c.params)

\* the child has read its closed input to the end and has nothing left to
\* wait for: the process ends with code 0
InputClosedExit ==
    /\ cli.pc = "waiting"
    /\ status = "running"
    /\ stdin = <<>>
    /\ \A i \in DOMAIN reqs : reqs[i].st = "responded"
    /\ status' = "exit 0"
    /\ UNCHANGED <<env, stdin, nread, reqs, out, diag, upstream, cli, project>>

\* what the stderr handler relays of the child's diagnostic lines
Relayed(e, lines) ==
    IF e.LOG_LEVEL = S("debug")
    THEN [k \in DOMAIN lines |-> <<"[DEBUG] MCP Server: ">> \o lines[k]]
    ELSE <<>>

\* mcpServer.on('close', ...)
OnClose ==
    /\ cli.pc = "waiting"
    /\ status \in {"exit 0", "exit 1"}
    /\ cli' = [cli EXCEPT !.pc = "settled",
                          !.outcome = SettleOnClose(ExitCode(status), out),
                          !.stderr = @ \o Relayed(env, diag),
                          !.closed = Append(@, [calls |-> upstream,
                                                outcome |-> SettleOnClose(ExitCode(status), out)])]
    /\ UNCHANGED <<env, stdin, nread, reqs, out, diag, upstream, status, project>>

\* the command continues after its await
CommandResumes ==
    /\ cli.pc = "settled"
    /\ IF cli.outcome.ok
       THEN cli' = [cli EXCEPT !.pc = "done"]
       ELSE CommandFails(cli.outcome.message)
    /\ UNCHANGED <<env, stdin, nread, reqs, out, diag, upstream, status, project>>

NextCli ==
    \/ RunCommand
    \/ ReadLine
    \/ \E i \in DOMAIN reqs : UpstreamResolves(i)
    \/ \E i \in DOMAIN reqs : UpstreamRejects(i)
    \/ \E i \in DOMAIN reqs : Resume(i)
    \/ Sigint
    \/ InputClosedExit
    \/ OnClose
    \/ CommandResumes

SpecCli == InitCli /\ [][NextCli]_vars

----------------------------------------------------------------------------
(* The commands that ask the LLM for a list of tasks and send one request   *)
(* per task: parse-prd and expand.  Each executeMcpCommand call starts a    *)
(* new child; cli.sent holds the requests written so far and cli.closed     *)
(* what is known of the children that have closed.                          *)

MaxTasks == 3

\* an issue of the tracker; GitLab lists it under its iid, JIRA under the
\* key PROJ-<iid>
Issue(iid, title, description, state) ==
    [iid |-> iid, title |-> title, description |-> description, state |-> state]

GitlabIssue(issue) ==
    Obj([iid |-> Num(issue.iid), title |-> S(issue.title),
         description |-> issue.description, state |-> S(issue.state)])

JiraKey(issue) == Str(<<"PROJ", "-", ToString(issue.iid)>>)

JiraIssue(issue) ==
    Obj([key |-> JiraKey(issue),
         fields |-> Obj([summary |-> S(issue.title), description |-> issue.description])])

Projects ==
    LET login == Issue(7, "Login", S("Add a login page"), "opened")
        crash == Issue(42, "Crash", Null, "opened")
        fixed == Issue(42, "Crash", Null, "closed")
    IN  {<<>>, <<login>>, <<crash>>, <<login, crash>>, <<crash, login>>, <<login, fixed>>}

\* GET /projects/:id/issues: the issues in the state asked for, at most
\* per_page of them
GitlabIssuesAll(issues, options) ==
    LET Wanted(i) == \/ Get(options, "state") \in {Undefined, S("all")}
                     \/ Get(options, "state") = S(i.state)
        found == SelectSeq(issues, Wanted)
        size == Get(options, "per_page")
        n == IF size.t = "number" /\ size.v < Len(found) THEN size.v ELSE Len(found)
    IN  Arr([k \in 1..n |-> GitlabIssue(found[k])])

\* the JIRA search for the query key=<key>
JiraSearch(issues, jql) ==
    LET Wanted(i) == ToText(jql) = <<"key=">> \o JiraKey(i).v
        found == SelectSeq(issues, Wanted)
    IN  Obj([total |-> Num(Len(found)),
             issues |-> Arr([k \in DOMAIN found |-> JiraIssue(found[k])])])

\* what the tracker answers to a call
TrackerValue(call) ==
    CASE call.api = "gitlab.Issues.all" -> JsonEncode(GitlabIssuesAll(project, call.args[1]))
      [] call.api = "jira.searchJira" -> JsonEncode(JiraSearch(project, call.args[1]))
      [] OTHER -> UpstreamValue(call)

\* the platform answers the call of request i from the issues it holds
TrackerAnswers(i) ==
    /\ status = "running"
    /\ reqs[i].st = "awaiting"
    /\ NoMicrotask
    /\ reqs' = [reqs EXCEPT ![i].st = "settled",
                            ![i].outcome = Resolved(TrackerValue(upstream[UpstreamCall(i)]))]
    /\ UNCHANGED <<env, stdin, nread, out, diag, upstream, status, cli, project>>

BatchEnvSet ==
    {FullEnv,
     EnvWith(FullEnv, "NODE_ENV", S("test")),
     EnvWith(FullEnv, "DEFAULT_PLATFORM", Str(GitlabName)),
     EnvWith(FullEnv, "JIRA_PROJECT", Undefined)}

BatchCommandNames == {"parse-prd", "expand"}

BatchPlatformOptions ==
    {Absent, Str(JiraName), Str(GitlabName), Str(<<"t","r","e","l","l","o">>)}

\* the <issueId> argument of expand
IssueIds == {S("42"), Str(<<"PROJ", "-", "42">>)}

\* the tasks the LLM may list
TaskSet ==
    {Obj([summary |-> S("Login"), description |-> S("Add a login page")]),
     Obj([summary |-> S("Logout")]),
     Obj([description |-> S("Untitled")])}

TaskLists == UNION {[1..n -> TaskSet] : n \in 0..MaxTasks}

\* claudeClient.messages.create: the call fails, the text holds no JSON,
\* or it holds a list of tasks
LlmAnswerSet ==
    {[kind |-> k, tasks |-> <<>>] : k \in {"rejected", "no json"}}
    \cup {[kind |-> "tasks", tasks |-> t] : t \in TaskLists}

\* s.split('-')[0]
SplitFirst(s) ==
    LET dashes == {k \in DOMAIN s.v : s.v[k] = "-"}
    IN  IF dashes = {} THEN s
        ELSE Str(SubSeq(s.v, 1, (CHOOSE k \in dashes : \A j \in dashes : k <= j) - 1))

\* issueData of the loop of parse-prd
ParsePrdIssueData(platform, task, projectIdentifier) ==
    IF platform = Str(JiraName)
    THEN Obj([projectKey |-> projectIdentifier,
              summary |-> Get(task, "summary"),
              description |-> Get(task, "description"),
              issueType |-> Or(Get(task, "issueType"), S("Task")),
              platform |-> platform])
    ELSE IF platform = Str(GitlabName)
    THEN Obj([title |-> Get(task, "summary"),
              description |-> Get(task, "description"),
              platform |-> platform])
    ELSE Undefined

\* issueData of the loop of expand
ExpandIssueData(platform, subtask, issueId) ==
    IF platform = Str(JiraName)
    THEN Obj([projectKey |-> SplitFirst(issueId),
              summary |-> Get(subtask, "summary"),
              description |-> Get(subtask, "description"),
              issueType |-> S("Sub-task"),
              parent |-> Obj([key |-> issueId]),
              platform |-> platform])
    ELSE IF platform = Str(GitlabName)
    THEN Obj([title |-> Str(<<"[Subtask] ">> \o ToText(Get(subtask, "summary"))),
              description |-> Str(ToText(Get(subtask, "description"))
                                  \o <<"\n\nParent Issue: #">> \o ToText(issueId)),
              platform |-> platform])
    ELSE Undefined

\* options.project || process.env.JIRA_PROJECT, run without --project
ProjectIdentifier(platform, e) ==
    IF platform = Str(JiraName) THEN e.JIRA_PROJECT
    ELSE IF platform = Str(GitlabName) THEN e.GITLAB_PROJECT_ID
    ELSE Undefined

BatchIssueData(c, platform, e) ==
    IF c.command = "parse-prd"
    THEN ParsePrdIssueData(platform, c.tasks[c.next], ProjectIdentifier(platform, e))
    ELSE ExpandIssueData(platform, c.tasks[c.next], c.issueId)

InitBatch ==
    /\ env \in BatchEnvSet
    /\ stdin = <<>>
    /\ nread = 0
    /\ reqs = <<>>
    /\ out = <<>>
    /\ diag = <<>>
    /\ upstream = <<>>
    /\ status = "not started"
    /\ cli \in {[pc |-> "idle", command |-> c, option |-> o, claude |-> k,
                 issueId |-> id, tasks |-> <<>>, next |-> 0, parent |-> Undefined,
                 spawns |-> 0, written |-> 0, ended |-> FALSE, outcome |-> NoOutcome,
                 stderr |-> <<>>, exit |-> "none", sent |-> <<>>, closed |-> <<>>] :
                    c \in BatchCommandNames, o \in BatchPlatformOptions,
                    k \in BOOLEAN, id \in IssueIds}
    /\ project \in Projects

\* the action callback of parse-prd or expand, up to its first await
RunBatchCommand ==
    /\ cli.pc = "idle"
    /\ LET platform == CliPlatform(cli.option, env)
       IN  IF ~cli.claude
           THEN /\ CommandFails(<<"ANTHROPIC_API_KEY is required for this command">>)
                /\ UNCHANGED <<env, stdin, nread, reqs, out, diag, upstream, status, project>>
           ELSE IF cli.command = "parse-prd"
           THEN /\ cli' = [cli EXCEPT !.pc = "llm"]
                /\ UNCHANGED <<env, stdin, nread, reqs, out, diag, upstream, status, project>>
           ELSE IF platform = Str(JiraName)
           THEN ExecuteMcpCommand(S("search_issues"),
                    Obj([jql |-> Str(<<"key=">> \o ToText(cli.issueId)),
                         options |-> Obj([fields |-> Arr(<<S("summary"), S("description")>>)]),
                         platform |-> platform]))
           ELSE IF platform = Str(GitlabName)
           THEN ExecuteMcpCommand(S("search_issues"),
                    Obj([issueId |-> cli.issueId, platform |-> platform]))
           ELSE /\ CommandFails(TypeErrorRead("summary", "undefined"))
                /\ UNCHANGED <<env, stdin, nread, reqs, out, diag, upstream, status, project>>

\* the for loop over the tasks, entered or continued in state c: the next
\* request is sent, or the command is done
ContinueLoop(c) ==
    IF c.next > Len(c.tasks)
    THEN /\ cli' = [c EXCEPT !.pc = "done"]
         /\ UNCHANGED <<env, stdin, nread, reqs, out, diag, upstream, status, project>>
    ELSE ExecuteMcpCommandFrom(c, S("create_issue"),
                               BatchIssueData(c, CliPlatform(c.option, env), env))

\* the command continues when the LLM has answered
LlmAnswers ==
    /\ cli.pc = "llm"
    /\ \E a \in LlmAnswerSet :
         LET platform == CliPlatform(cli.option, env)
             failing ==
                 IF a.kind = "rejected" THEN <<"Claude API error">>
                 ELSE IF a.kind = "no json"
                 THEN IF cli.command = "parse-prd"
                      THEN <<"Could not extract task list from Claude's response">>
                      ELSE <<"Could not extract subtask list from Claude's response">>
                 ELSE IF cli.command = "parse-prd" /\ platform \in {Str(JiraName), Str(GitlabName)}
                         /\ ~Truthy(ProjectIdentifier(platform, env))
                 THEN IF platform = Str(JiraName) THEN ProjectKeyRequired ELSE ProjectIdRequired
                 ELSE <<>>
         IN  IF failing # <<>>
             THEN /\ CommandFails(failing)
                  /\ UNCHANGED <<env, stdin, nread, reqs, out, diag, upstream, status, project>>
             ELSE ContinueLoop([cli EXCEPT !.tasks = a.tasks, !.next = 1])

NotFound(platform, issueId) ==
    IF platform = Str(JiraName)
    THEN <<"Issue ">> \o ToText(issueId) \o <<" not found">>
    ELSE <<"Issue #">> \o ToText(issueId) \o <<" not found">>

\* how expand reads the result of its search: the message of the error it
\* throws, or the parent issue it goes on with
ParentIssue(platform, result, issueId) ==
    LET list == IF platform = Str(JiraName) THEN Get(result, "issues") ELSE result
        first == list.v[1]
        source == IF platform = Str(JiraName) THEN Get(first, "fields") ELSE first
        title == IF platform = Str(JiraName) THEN "summary" ELSE "title"
    IN  IF platform = Str(JiraName) /\ Nullish(result)
        THEN [thrown |-> TRUE, message |-> TypeErrorRead("issues", BaseText(result)),
              issue |-> Undefined]
        ELSE IF ~Truthy(list) \/ (list.t = "array" /\ Len(list.v) = 0)
        THEN [thrown |-> TRUE, message |-> NotFound(platform, issueId), issue |-> Undefined]
        ELSE IF list.t # "array"
        THEN [thrown |-> TRUE, message |-> TypeErrorRead(title, "undefined"),
              issue |-> Undefined]
        ELSE [thrown |-> FALSE, message |-> <<>>,
              issue |-> Obj([summary |-> Get(source, title),
                             description |-> Or(Get(source, "description"),
                                                S("No description provided."))])]

\* a loop that goes on with the next task when a request has failed
BatchResumesSkippingFailures ==
    /\ cli.pc = "settled"
    /\ LET platform == CliPlatform(cli.option, env)
           parent == ParentIssue(platform, cli.outcome.value, cli.issueId)
       IN  IF cli.next = 0 /\ ~cli.outcome.ok
           THEN /\ CommandFails(cli.outcome.message)
                /\ UNCHANGED <<env, stdin, nread, reqs, out, diag, upstream, status, project>>
           ELSE IF cli.next = 0 /\ parent.thrown
           THEN /\ CommandFails(parent.message)
                /\ UNCHANGED <<env, stdin, nread, reqs, out, diag, upstream, status, project>>
           ELSE IF cli.next = 0
           THEN /\ cli' = [cli EXCEPT !.pc = "llm", !.parent = parent.issue]
                /\ UNCHANGED <<env, stdin, nread, reqs, out, diag, upstream, status, project>>
           ELSE ContinueLoop([cli EXCEPT !.next = @ + 1])

\* the command continues after an await of executeMcpCommand: after the
\* search of expand (cli.next = 0) or after a create_issue of the loop
BatchResumes ==
    /\ cli.pc = "settled"
    /\ LET platform == CliPlatform(cli.option, env)
           parent == ParentIssue(platform, cli.outcome.value, cli.issueId)
       IN  IF ~cli.outcome.ok
           THEN /\ CommandFails(cli.outcome.message)
                /\ UNCHANGED <<env, stdin, nread, reqs, out, diag, upstream, status, project>>
           ELSE IF cli.next = 0 /\ parent.thrown
           THEN /\ CommandFails(parent.message)
                /\ UNCHANGED <<env, stdin, nread, reqs, out, diag, upstream, status, project>>
           ELSE IF cli.next = 0
           THEN /\ cli' = [cli EXCEPT !.pc = "llm", !.parent = parent.issue]
                /\ UNCHANGED <<env, stdin, nread, reqs, out, diag, upstream, status, project>>
           ELSE IF Nullish(cli.outcome.value) /\ platform \in {Str(JiraName), Str(GitlabName)}
           THEN /\ CommandFails(TypeErrorRead(IF platform = Str(JiraName) THEN "key" ELSE "iid",
                                              BaseText(cli.outcome.value)))
                /\ UNCHANGED <<env, stdin, nread, reqs, out, diag, upstream, status, project>>
           ELSE ContinueLoop([cli EXCEPT !.next = @ + 1])

NextBatch ==
    \/ RunBatchCommand
    \/ LlmAnswers
    \/ ReadLine
    \/ \E i \in DOMAIN reqs : TrackerAnswers(i)
    \/ \E i \in DOMAIN reqs : UpstreamRejects(i)
    \/ \E i \in DOMAIN reqs : Resume(i)
    \/ Sigint
    \/ InputClosedExit
    \/ OnClose
    \/ BatchResumes

SpecBatch == InitBatch /\ [][NextBatch]_vars

----------------------------------------------------------------------------
(* Vocabulary of the properties *)

\* the output lines written for the i-th handled request
RespOf(i) == {k \in DOMAIN out : out[k].req = i}

\* the decoded response of output line k
Response(k) == JsonParse(out[k].line).value

\* the calls made upstream for the i-th handled request
CallsOf(i) == {c \in DOMAIN upstream : upstream[c].req = i}

\* handleRequest has run to its end for the i-th request
Finished(i) == reqs[i].st \in {"responded", "rejected"}

ParamsOf(r) == Get(r, "params")
MethodOf(r) == Get(r, "method")

\* params.platform as the request carries it
PlatformField(r) ==
    IF Truthy(ParamsOf(r)) THEN Get(ParamsOf(r), "platform") ELSE Undefined

\* the identifier names platform name up to letter case
Names(p, name) == p.t = "string" /\ ToLowerCase(p.v) = name

\* the request carries no platform: the default applies
NoPlatform(r) == ~Truthy(PlatformField(r))

\* the platform the registry resolves for the request, "none" if it fails
ResolvedPlatform(r) ==
    CASE NoPlatform(r) -> "jira"
      [] Names(PlatformField(r), JiraName) -> "jira"
      [] Names(PlatformField(r), GitlabName) -> "gitlab"
      [] OTHER -> "none"

IsErrorResponse(resp) == ~Nullish(Get(resp, "error"))

MessageOf(resp) == Get(Get(resp, "error"), "message")

----------------------------------------------------------------------------
(* C1 - C10 *)

\* C1: every value handed to handleRequest is answered by exactly one
\* sendResponse call, never two and, once handleRequest has run to its end,
\* never none, and the response carries the request's own id.
CxC1_ExactlyOneResponse ==
    \A i \in DOMAIN reqs :
        /\ Cardinality(RespOf(i)) <= 1
        /\ Finished(i) => Cardinality(RespOf(i)) = 1
        /\ \A k \in RespOf(i) :
              /\ ~Nullish(reqs[i].request)
              /\ Get(Response(k), "id") = JsonEncode(Get(reqs[i].request, "id"))

\* C2: every response written has exactly one of result and error non-null.
CxC2_ResultXorError ==
    \A k \in DOMAIN out :
        Nullish(Get(Response(k), "result")) # Nullish(Get(Response(k), "error"))

UnknownMethod(r) == MethodOf(r) \notin KnownMethods

UnknownMethodResponse(r, resp) ==
    /\ MessageOf(resp) = Str(<<"Unknown method: ">> \o ToText(MethodOf(r)))
    /\ Get(resp, "result") = Null

\* C3 as stated: whatever the params and the platform, a request with an
\* unsupported method is answered "Unknown method: <method>", result null.
CxC3_UnknownMethodAnyPlatform ==
    \A i \in DOMAIN reqs : \A k \in RespOf(i) :
        UnknownMethod(reqs[i].request) => UnknownMethodResponse(reqs[i].request, Response(k))

\* C3 amended: a request with an unsupported method whose platform resolves
\* (params.platform is absent or falsy, or names jira or gitlab in any letter
\* case) is answered at once with "Unknown method: <method>", result null.
ThC3_UnknownMethod ==
    \A i \in DOMAIN reqs :
        LET r == reqs[i].request
        IN  (~Nullish(r) /\ UnknownMethod(r) /\ ResolvedPlatform(r) # "none") =>
                /\ RespOf(i) # {}
                /\ \A k \in RespOf(i) : UnknownMethodResponse(r, Response(k))

WitC3_UnknownMethod ==
    \E i \in DOMAIN reqs : \E k \in RespOf(i) :
        /\ MethodOf(reqs[i].request) = S("delete_issue")
        /\ PlatformField(reqs[i].request) = Str(<<"G","i","t","L","a","b">>)
        /\ MessageOf(Response(k)) = Str(<<"Unknown method: ", "delete_issue">>)

\* the identifier names a supported platform but is not written in lower case
CaseVariant(r) ==
    /\ ResolvedPlatform(r) # "none"
    /\ ~NoPlatform(r)
    /\ PlatformField(r).v # ToLowerCase(PlatformField(r).v)

\* the request with its platform identifier written in lower case
Lowered(r) ==
    Put(r, "params",
        Put(ParamsOf(r), "platform", Str(ToLowerCase(PlatformField(r).v))))

\* the response a request gets whose handling took this step
ExpectedLine(r, step) ==
    IF step.kind = "responded" THEN JsonStringify(step.send[1])
    ELSE JsonStringify(SendResponse(Get(r, "id"), Null, ErrorObj(step.adapter.message)))

\* C4: a request whose platform differs from jira or gitlab in letter case
\* only calls the same adapter function, makes the same upstream call and
\* gets the same response as the request written in lower case.
CxC4_CaseInsensitive ==
    \A i \in DOMAIN reqs :
        LET r == reqs[i].request
            ref == HandleRequest(Lowered(r), env)
        IN  CaseVariant(r) =>
              /\ reqs[i].op = ref.op
              /\ IF ref.kind = "await" /\ ~ref.adapter.thrown
                 THEN \E c \in CallsOf(i) :
                        /\ upstream[c].api = ref.adapter.call.api
                        /\ upstream[c].args = ref.adapter.call.args
                 ELSE /\ CallsOf(i) = {}
                      /\ Finished(i) =>
                            \E k \in RespOf(i) : out[k].line = ExpectedLine(r, ref)

\* params.platform is a non-empty string that names no supported platform
UnsupportedPlatform(r) ==
    /\ ~Nullish(r)
    /\ PlatformField(r).t = "string"
    /\ Truthy(PlatformField(r))
    /\ ResolvedPlatform(r) = "none"

\* the i-th request is answered once, with this error, and no adapter
\* function is called for it
ShortCircuits(i, msg) ==
    /\ reqs[i].op = "none"
    /\ CallsOf(i) = {}
    /\ Cardinality(RespOf(i)) = 1
    /\ \A k \in RespOf(i) :
          /\ Get(Response(k), "result") = Null
          /\ MessageOf(Response(k)) = Str(msg)

\* C5 as stated: an unsupported platform short-circuits the request, and
\* the error is "Unsupported platform: " followed by the identifier.
CxC5_UnsupportedPlatformEchoed ==
    \A i \in DOMAIN reqs :
        UnsupportedPlatform(reqs[i].request) =>
            ShortCircuits(i, <<"Unsupported platform: ">> \o PlatformField(reqs[i].request).v)

\* C5 amended: when params.platform is a non-empty string that names no
\* supported platform, no adapter function is called, whatever the method,
\* and the single response has result null and the error "Unsupported
\* platform: " followed by the identifier converted to lower case.
ThC5_UnsupportedPlatform ==
    \A i \in DOMAIN reqs :
        UnsupportedPlatform(reqs[i].request) =>
            ShortCircuits(i, <<"Unsupported platform: ">>
                             \o ToLowerCase(PlatformField(reqs[i].request).v))

WitC5_UnsupportedPlatform ==
    \E i \in DOMAIN reqs : \E k \in RespOf(i) :
        /\ MethodOf(reqs[i].request) = S("create_issue")
        /\ PlatformField(reqs[i].request) = Str(<<"T","r","e","l","l","o">>)
        /\ MessageOf(Response(k)) =
              Str(<<"Unsupported platform: ", "t", "r", "e", "l", "l", "o">>)

\* the platform whose adapter function op belongs to
ClientOfOp(op) ==
    CASE op \in {"jira.createIssue", "jira.updateIssue", "jira.searchIssues",
                 "jira.hasRequiredEnv"} -> "jira"
      [] op = "none" -> "none"
      [] OTHER -> "gitlab"

NameOfClient(c) == IF c = "jira" THEN JiraName ELSE GitlabName

\* C6 as stated: a request without params.platform goes to the platform
\* DEFAULT_PLATFORM configures, and to jira when that is unset.
CxC6_ConfiguredDefault ==
    \A i \in DOMAIN reqs :
        LET r == reqs[i].request
        IN  (~Nullish(r) /\ NoPlatform(r) /\ reqs[i].op # "none") =>
                Names(GetDefaultPlatform(env), NameOfClient(ClientOfOp(reqs[i].op)))

\* C6 amended: a request without params.platform goes to jira, whatever
\* DEFAULT_PLATFORM is set to; only the command line front-end reads it.
ThC6_DefaultIsJira ==
    \A i \in DOMAIN reqs :
        LET r == reqs[i].request
        IN  (~Nullish(r) /\ NoPlatform(r) /\ reqs[i].op # "none") =>
                ClientOfOp(reqs[i].op) = "jira"

WitC6_DefaultIsJira ==
    /\ env.DEFAULT_PLATFORM = Str(GitlabName)
    /\ \E i \in DOMAIN reqs :
          /\ ~Has(ParamsOf(reqs[i].request), "platform")
          /\ reqs[i].op = "jira.createIssue"
          /\ \E c \in CallsOf(i) : upstream[c].api = "jira.addNewIssue"

TitleField(client) == IF client = "jira" THEN "summary" ELSE "title"

\* a create_issue request without the title field of its platform
LacksTitle(r) ==
    /\ ~Nullish(r)
    /\ MethodOf(r) = S("create_issue")
    /\ ResolvedPlatform(r) # "none"
    /\ ~Truthy(Get(ParamsOf(r), TitleField(ResolvedPlatform(r))))

\* C7: a create_issue request that lacks the title field of its platform
\* (summary for JIRA, title for GitLab; absent or empty) makes no upstream
\* call and is answered with a non-null error.
ThC7_CreateWithoutTitle ==
    \A i \in DOMAIN reqs :
        LacksTitle(reqs[i].request) =>
            /\ CallsOf(i) = {}
            /\ reqs[i].st \in {"settled", "responded"}
            /\ reqs[i].st = "responded" => RespOf(i) # {}
            /\ \A k \in RespOf(i) : IsErrorResponse(Response(k))

WitC7_CreateWithoutTitle ==
    /\ env = FullEnv
    /\ \E i \in DOMAIN reqs : \E k \in RespOf(i) :
          /\ LacksTitle(reqs[i].request)
          /\ ~Has(ParamsOf(reqs[i].request), "title")
          /\ MessageOf(Response(k)) = S("Issue title is required")

\* updateIssue was called for the i-th request with a falsy key
FalsyKey(i) ==
    /\ reqs[i].op \in {"jira.updateIssue", "gitlab.updateIssue"}
    /\ ~Truthy(reqs[i].data)

KeyMessage(op) ==
    IF op = "jira.updateIssue" THEN <<"Issue key is required">>
    ELSE <<"Issue ID is required">>

ConfigMessage(op) ==
    IF ClientOfOp(op) = "jira" THEN JiraConfigMessage ELSE GitlabConfigMessage

ConfigComplete(op, e) ==
    IF ClientOfOp(op) = "jira" THEN \A k \in JiraRequired : Truthy(e[k])
    ELSE \A k \in GitlabRequired : Truthy(e[k])

\* updateIssue failed for the i-th request with this message, before any
\* upstream call
FailsBeforeCall(i, msg) ==
    /\ CallsOf(i) = {}
    /\ reqs[i].st \in {"settled", "responded"}
    /\ reqs[i].outcome = Rejected(msg)
    /\ reqs[i].st = "responded" => RespOf(i) # {}
    /\ \A k \in RespOf(i) : MessageOf(Response(k)) = Str(msg)

\* C8 as stated: updateIssue with a falsy key fails with the validation
\* error, and no upstream update is made.
CxC8_FalsyKeyValidation ==
    \A i \in DOMAIN reqs : FalsyKey(i) => FailsBeforeCall(i, KeyMessage(reqs[i].op))

\* C8 amended: updateIssue with a falsy key fails before any upstream call,
\* with the validation error ("Issue key is required" for JIRA, "Issue ID is
\* required" for GitLab) when the platform's required configuration is
\* complete and with the "Missing required ... configuration" error when it
\* is not; the upstream update is never made.
ThC8_FalsyKey ==
    \A i \in DOMAIN reqs :
        FalsyKey(i) =>
            FailsBeforeCall(i, IF ConfigComplete(reqs[i].op, env)
                               THEN KeyMessage(reqs[i].op)
                               ELSE ConfigMessage(reqs[i].op))

WitC8_FalsyKey ==
    /\ env = FullEnv
    /\ \E i \in DOMAIN reqs : \E k \in RespOf(i) :
          /\ FalsyKey(i)
          /\ PlatformField(reqs[i].request) = Str(GitlabName)
          /\ Has(ParamsOf(reqs[i].request), "updateData")
          /\ MessageOf(Response(k)) = S("Issue ID is required")

UpdateApis == {"jira.updateIssue", "gitlab.Issues.edit"}

\* the payload of upstream update call c, and the fields it sets
PayloadOf(c) == upstream[c].args[Len(upstream[c].args)]

PayloadFields(c) ==
    IF upstream[c].api = "jira.updateIssue"
    THEN DOMAIN Get(PayloadOf(c), "fields").v
    ELSE DOMAIN PayloadOf(c).v

\* the updateData field a payload field is taken from
FieldSource(f) ==
    CASE f = "assignee_id" -> "assigneeId"
      [] f = "state_event" -> "state"
      [] OTHER -> f

UpdateDataOf(c) == Get(ParamsOf(reqs[upstream[c].req].request), "updateData")

\* C9: the payload of every upstream update holds only fields present in
\* the request's updateData, and two updates of a platform made with the
\* same updateData carry the same payload.
ThC9_SparseUpdate ==
    \A c \in DOMAIN upstream :
        upstream[c].api \in UpdateApis =>
            /\ \A f \in PayloadFields(c) : Has(UpdateDataOf(c), FieldSource(f))
            /\ \A d \in DOMAIN upstream :
                  (upstream[d].api = upstream[c].api /\ UpdateDataOf(d) = UpdateDataOf(c))
                      => PayloadOf(d) = PayloadOf(c)

WitC9_SparseUpdate ==
    \E c, d \in DOMAIN upstream :
        /\ c # d
        /\ upstream[c].api = "jira.updateIssue"
        /\ upstream[d].api = "jira.updateIssue"
        /\ upstream[c].args[1] # upstream[d].args[1]
        /\ UpdateDataOf(c) = UpdateDataOf(d)
        /\ PayloadFields(c) = {"summary"}

\* C10: delivering a line that is no JSON writes no response, calls neither
\* the dispatcher nor an adapter, writes a diagnostic line that starts with
\* [ERROR], and leaves the bridge running with the later lines still to read.
ThC10_MalformedLine ==
    [][(status = "running" /\ stdin # <<>> /\ Head(stdin).t = "garbage"
            /\ nread' = nread + 1)
        => /\ out' = out
           /\ reqs' = reqs
           /\ upstream' = upstream
           /\ Len(diag') = Len(diag) + 1
           /\ diag'[Len(diag')][1] = "[ERROR] Failed to parse request: "
           /\ status' = "running"
           /\ stdin' = Tail(stdin)]_vars

\* a line that is no JSON was read, and a later line has been answered
WitC10_MalformedLine ==
    \E n \in 1..nread :
        /\ \A i \in DOMAIN reqs : reqs[i].line # n
        /\ \E i \in DOMAIN reqs : reqs[i].line > n /\ RespOf(i) # {}
        /\ out # <<>>

----------------------------------------------------------------------------
(* C11 - C20 *)

\* a has_required_config request whose platform resolves
ConfigQuery(r) ==
    /\ ~Nullish(r)
    /\ MethodOf(r) = S("has_required_config")
    /\ ResolvedPlatform(r) # "none"

\* every mandatory configuration value of the platform is set and non-empty
MandatorySet(platform, e) ==
    \A k \in (IF platform = "jira" THEN JiraRequired ELSE GitlabRequired) :
        e[k].t = "string" /\ e[k].v # <<>>

\* C11: a has_required_config request whose platform resolves is answered at
\* once by one success response {hasRequiredConfig: b}, b being true exactly
\* when every mandatory configuration value of the platform is set and
\* non-empty; no upstream call is made and the error is null whatever the
\* configuration.
ThC11_HasRequiredConfig ==
    \A i \in DOMAIN reqs :
        LET r == reqs[i].request
        IN  ConfigQuery(r) =>
              /\ CallsOf(i) = {}
              /\ reqs[i].st = "responded"
              /\ Cardinality(RespOf(i)) = 1
              /\ \A k \in RespOf(i) :
                    /\ Get(Response(k), "error") = Null
                    /\ Get(Response(k), "result") =
                          Obj([hasRequiredConfig |->
                                  Bool(MandatorySet(ResolvedPlatform(r), env))])

\* the JIRA e-mail address alone is missing and the answer is false
WitC11_HasRequiredConfig ==
    /\ env = EnvWith(FullEnv, "JIRA_EMAIL", Undefined)
    /\ \E i \in DOMAIN reqs : \E k \in RespOf(i) :
          /\ ConfigQuery(reqs[i].request)
          /\ ResolvedPlatform(reqs[i].request) = "jira"
          /\ Get(Response(k), "result") = Obj([hasRequiredConfig |-> Bool(FALSE)])

\* the upstream call made for the i-th request has failed
UpstreamFailed(i) ==
    /\ CallsOf(i) # {}
    /\ reqs[i].st # "awaiting"
    /\ ~reqs[i].outcome.ok

EndedInError(i) ==
    \/ reqs[i].st = "rejected"
    \/ reqs[i].st = "responded" /\ \E k \in RespOf(i) : IsErrorResponse(Response(k))

\* C13: whatever JSON value a line decodes to, handleRequest never rejects,
\* the process is never ended by the handling of a request, and a handling
\* that ends in an error has written a response whose error.message is set.
CxC13_ErrorsCaughtAtBoundary ==
    /\ status # "exit 1"
    /\ \A i \in DOMAIN reqs :
          /\ reqs[i].st # "rejected"
          /\ EndedInError(i) =>
                \E k \in RespOf(i) : MessageOf(Response(k)).t = "string"

\* C14: the transport does not serialize requests: a line that decodes is
\* handed to handleRequest in the step that delivers it, whether or not the
\* adapter call of an earlier request is still pending; the earlier requests
\* are left as they are, and the new request's upstream call, if its handler
\* reaches one, is made in that same step.
ThC14_NotSerialized ==
    [][(nread' = nread + 1 /\ Head(stdin).t = "json")
        => /\ Len(reqs') = Len(reqs) + 1
           /\ \A i \in DOMAIN reqs : reqs'[i] = reqs[i]
           /\ reqs'[Len(reqs')].line = nread'
           /\ reqs'[Len(reqs')].st = "awaiting" =>
                 /\ Len(upstream') = Len(upstream) + 1
                 /\ upstream'[Len(upstream')].req = Len(reqs')]_vars

\* two requests made upstream calls, and the response to the later-received
\* line stands in the output before the response to the earlier-received one
WitC14_NotSerialized ==
    \E i, j \in DOMAIN reqs : \E ki \in RespOf(i), kj \in RespOf(j) :
        /\ reqs[i].line < reqs[j].line
        /\ kj < ki
        /\ CallsOf(i) # {}
        /\ CallsOf(j) # {}

\* the adapter call handleRequest makes for request r in this configuration
OwnCall(r, e) == HandleRequest(r, e).adapter.call

\* output line k is the response to the i-th request, built from that
\* request's id and the outcome of the upstream call made from its own
\* parameters
OwnOutcome(i, k) ==
    LET r == reqs[i].request
        resp == Response(k)
    IN  /\ Get(resp, "id") = JsonEncode(Get(r, "id"))
        /\ \A c \in CallsOf(i) :
              /\ upstream[c].api = OwnCall(r, env).api
              /\ upstream[c].args = OwnCall(r, env).args
              /\ IF reqs[i].outcome.ok
                 THEN /\ Get(resp, "result") = JsonEncode(UpstreamValue(upstream[c]))
                      /\ Get(resp, "error") = Null
                 ELSE /\ Get(resp, "result") = Null
                      /\ MessageOf(resp) = Str(UpstreamError(upstream[c]))

Correlated == \A k \in DOMAIN out : OwnOutcome(out[k].req, k)

\* C15: under every interleaving, each response carries the id of its own
\* request and the result or error of the upstream call made for that
\* request, never that of another request in flight; and a request whose
\* adapter call has settled is answered, whether or not the calls of the
\* other requests ever settle.
ThC15_Correlated ==
    /\ []Correlated
    /\ \A i \in 1..MaxLines :
          (i \in DOMAIN reqs /\ reqs[i].st = "settled") ~> (RespOf(i) # {})

\* two requests with different ids were in flight together, the later one
\* was answered first, and one call succeeded while the other failed
WitC15_Correlated ==
    \E i, j \in DOMAIN reqs : \E ki \in RespOf(i), kj \in RespOf(j) :
        /\ i < j
        /\ kj < ki
        /\ CallsOf(i) # {}
        /\ CallsOf(j) # {}
        /\ Get(reqs[i].request, "id") # Get(reqs[j].request, "id")
        /\ reqs[i].outcome.ok # reqs[j].outcome.ok

\* a create_issue, update_issue or search_issues request with a params
\* object, for a platform whose mandatory configuration is incomplete
NeedsMissingConfig(r, e) ==
    /\ ~Nullish(r)
    /\ ParamsOf(r).t = "object"
    /\ MethodOf(r) \in {S("create_issue"), S("update_issue"), S("search_issues")}
    /\ ResolvedPlatform(r) # "none"
    /\ ~MandatorySet(ResolvedPlatform(r), e)

MissingConfigMessage(platform) ==
    IF platform = "jira" THEN JiraConfigMessage ELSE GitlabConfigMessage

\* C16: the bridge runs whatever the configuration, and every create_issue,
\* update_issue or search_issues request for a platform whose mandatory
\* configuration is incomplete makes no upstream call and is answered with
\* the error "Missing required ... configuration ...".
CxC16_LazyConfiguration ==
    \A i \in DOMAIN reqs :
        LET r == reqs[i].request
        IN  NeedsMissingConfig(r, env) =>
              /\ CallsOf(i) = {}
              /\ reqs[i].st \in {"settled", "responded"}
              /\ reqs[i].st = "responded" => RespOf(i) # {}
              /\ \A k \in RespOf(i) :
                    MessageOf(Response(k)) =
                        Str(MissingConfigMessage(ResolvedPlatform(r)))

\* the options object of JIRA search call c as the request gives it
JiraOptionsOf(c) ==
    LET o == Get(ParamsOf(reqs[upstream[c].req].request), "options")
    IN  IF o = Undefined THEN EmptyObj ELSE o

\* the filter object of GitLab search call c: the request's params
GitlabFilterOf(c) == ParamsOf(reqs[upstream[c].req].request)

\* the options a search call sends upstream
SentOptions(c) == upstream[c].args[Len(upstream[c].args)]

\* the caller gives option k: it is present (reading "present"), or it has
\* a truthy value (reading "truthy")
Given(o, k, reading) ==
    IF reading = "present" THEN Has(o, k) ELSE Truthy(Get(o, k))

\* option sent of the call carries the caller's value when the caller gives
\* one in field from, and the default otherwise
PassedOrDefault(c, src, from, sent, dflt, reading) ==
    Get(SentOptions(c), sent) =
        IF Given(src, from, reading) THEN Get(src, from) ELSE dflt

\* optional filter sent is in the call, with the caller's value, exactly
\* when the caller gives one in field from
AddedWhenGiven(c, src, from, sent, reading) ==
    /\ Has(SentOptions(c), sent) = Given(src, from, reading)
    /\ Given(src, from, reading) => Get(SentOptions(c), sent) = Get(src, from)

\* what every search call sends, under a reading of "given"
SearchDefaults(reading) ==
    \A c \in DOMAIN upstream :
        /\ upstream[c].api = "jira.searchJira" =>
              LET o == JiraOptionsOf(c)
              IN  /\ upstream[c].args[1] = Get(ParamsOf(reqs[upstream[c].req].request), "jql")
                  /\ Get(SentOptions(c), "jql") = upstream[c].args[1]
                  /\ PassedOrDefault(c, o, "maxResults", "maxResults", Num(50), reading)
                  /\ PassedOrDefault(c, o, "startAt", "startAt", Num(0), reading)
                  /\ PassedOrDefault(c, o, "fields", "fields", JiraDefaultFields, reading)
        /\ upstream[c].api = "gitlab.Issues.all" =>
              LET f == GitlabFilterOf(c)
              IN  /\ Get(SentOptions(c), "scope") = S("all")
                  /\ Get(SentOptions(c), "projectId") = env.GITLAB_PROJECT_ID
                  /\ PassedOrDefault(c, f, "state", "state", S("opened"), reading)
                  /\ PassedOrDefault(c, f, "maxResults", "per_page", Num(20), reading)
                  /\ PassedOrDefault(c, f, "page", "page", Num(1), reading)
                  /\ AddedWhenGiven(c, f, "labels", "labels", reading)
                  /\ AddedWhenGiven(c, f, "author", "author_username", reading)
                  /\ AddedWhenGiven(c, f, "assignee", "assignee_username", reading)
                  /\ AddedWhenGiven(c, f, "search", "search", reading)

\* C17 as stated: every search call sends the caller's value for each option
\* the caller gives and the platform's default for each option it does not
\* give, and adds an optional filter exactly when the caller gives it.
CxC17_SearchDefaultsWhenAbsent == SearchDefaults("present")

\* C17 amended: an option counts as given when its value is truthy.  JIRA
\* sends maxResults 50, startAt 0 and the default field list, GitLab state
\* 'opened', per_page 20 and page 1 with scope 'all', unless the caller gives
\* a truthy value, which is passed through; labels, author_username,
\* assignee_username and search are added only for a truthy value.  A falsy
\* value given (0, the empty string, null) is treated as not given.
ThC17_SearchDefaults == SearchDefaults("truthy")

\* a GitLab search that gives maxResults 0 and an empty state was sent with
\* the defaults, and a JIRA search has passed its maxResults through
WitC17_SearchDefaults ==
    \E c \in DOMAIN upstream :
        /\ upstream[c].api = "gitlab.Issues.all"
        /\ Get(GitlabFilterOf(c), "maxResults") = Num(0)
        /\ Get(GitlabFilterOf(c), "state") = EmptyStr
        /\ Get(GitlabFilterOf(c), "page") = Num(2)
        /\ Get(SentOptions(c), "per_page") = Num(20)
        /\ Get(SentOptions(c), "state") = S("opened")
        /\ Get(SentOptions(c), "page") = Num(2)
        /\ Has(SentOptions(c), "author_username")
        /\ ~Has(SentOptions(c), "assignee_username")

\* an update_issue request with a params object whose platform resolves
UpdateRequest(r) ==
    /\ ~Nullish(r)
    /\ ParamsOf(r).t = "object"
    /\ MethodOf(r) = S("update_issue")
    /\ ResolvedPlatform(r) # "none"

\* the parameter that names the issue on a platform
KeyParam(platform) == IF platform = "jira" THEN "issueKey" ELSE "issueId"

\* what updateIssue(key, updateData) of a platform does in this configuration
UpdateIssueOf(platform, key, updateData, e) ==
    IF platform = "jira" THEN JiraUpdateIssue(key, updateData, e)
    ELSE GitlabUpdateIssue(key, updateData, e)

\* the i-th request called adapter function op once, and the call did
\* what the adapter record expected says: it threw that error, or it made
\* that one upstream call
CalledAs(i, op, expected) ==
    /\ reqs[i].op = op
    /\ reqs[i].data = expected.data
    /\ IF expected.thrown
       THEN /\ CallsOf(i) = {}
            /\ reqs[i].outcome = Rejected(expected.message)
       ELSE /\ Cardinality(CallsOf(i)) = 1
            /\ \A c \in CallsOf(i) :
                  /\ upstream[c].api = expected.call.api
                  /\ upstream[c].args = expected.call.args

\* C18: an update_issue request calls updateIssue of its platform once, with
\* params.issueKey as the key when the platform is JIRA and params.issueId
\* when it is GitLab, and with params.updateData.
CxC18_UpdateDispatch ==
    \A i \in DOMAIN reqs :
        LET r == reqs[i].request
            platform == ResolvedPlatform(r)
        IN  UpdateRequest(r) =>
              CalledAs(i, IF platform = "jira" THEN "jira.updateIssue"
                          ELSE "gitlab.updateIssue",
                       UpdateIssueOf(platform, Get(ParamsOf(r), KeyParam(platform)),
                                     Get(ParamsOf(r), "updateData"), env))

\* a search_issues request with a params object whose platform resolves
SearchRequest(r) ==
    /\ ~Nullish(r)
    /\ ParamsOf(r).t = "object"
    /\ MethodOf(r) = S("search_issues")
    /\ ResolvedPlatform(r) # "none"

\* what the search call of a platform does with the arguments the claim names
SearchIssuesOf(platform, params, e) ==
    IF platform = "jira"
    THEN JiraSearchIssues(Get(params, "jql"), Get(params, "options"), e)
    ELSE GitlabSearchIssues(params, e)

\* C19: a search_issues request calls searchIssues of its platform once,
\* with (params.jql, params.options) when the platform is JIRA and with the
\* whole params object when it is GitLab, and what the call returns is the
\* result of the response, unchanged.
CxC19_SearchDispatch ==
    \A i \in DOMAIN reqs :
        LET r == reqs[i].request
            platform == ResolvedPlatform(r)
        IN  SearchRequest(r) =>
              /\ CalledAs(i, IF platform = "jira" THEN "jira.searchIssues"
                             ELSE "gitlab.searchIssues",
                          SearchIssuesOf(platform, ParamsOf(r), env))
              /\ \A k \in RespOf(i) :
                    reqs[i].outcome.ok =>
                        Get(Response(k), "result") = JsonEncode(reqs[i].outcome.value)

\* executeMcpCommand has settled its promise
CliSettled == cli.pc \in {"settled", "done", "failed"} /\ cli.spawns > 0

\* C20: a call of executeMcpCommand starts one bridge process, writes one
\* request line to it and closes its input; its promise is settled only
\* once the child has closed; when the child wrote one response, it rejects
\* with the error's message if the error is non-null and resolves with the
\* result otherwise; and a command whose call was rejected prints
\* "Error: <message>" and fails, without starting the bridge again.
ThC20_ExecuteMcpCommand ==
    /\ cli.pc \in {"waiting", "settled", "done"} =>
          /\ cli.spawns = 1
          /\ cli.written = 1
          /\ cli.ended
          /\ nread + Len(stdin) = 1
    /\ CliSettled =>
          /\ status \in {"exit 0", "exit 1"}
          /\ Len(out) = 1 =>
                IF ~Nullish(Get(Response(1), "error"))
                THEN cli.outcome = Rejected(MessageOf(Response(1)).v)
                ELSE cli.outcome = Resolved(Get(Response(1), "result"))
    /\ cli.pc = "done" => cli.outcome.ok
    /\ (CliSettled /\ ~cli.outcome.ok /\ cli.pc # "settled") =>
          /\ cli.pc = "failed"
          /\ cli.stderr[Len(cli.stderr)] = <<"Error: ">> \o cli.outcome.message
          /\ cli.exit = IF env.NODE_ENV = S("test") THEN "thrown" ELSE "exit 1"
          /\ cli.spawns = 1
          /\ Len(reqs) <= 1

\* the bridge answered a create command with a configuration error, and
\* the command printed it and exited with status 1
WitC20_ExecuteMcpCommand ==
    /\ cli.pc = "failed"
    /\ cli.command = "create"
    /\ cli.spawns = 1
    /\ status = "exit 0"
    /\ Len(out) = 1
    /\ cli.outcome = Rejected(GitlabConfigMessage)
    /\ cli.stderr = << <<"Error: ">> \o GitlabConfigMessage >>
    /\ cli.exit = "exit 1"

----------------------------------------------------------------------------
(* C21 - C30 *)

\* the response object sendResponse built for the i-th request, before it
\* was encoded
BuiltResponse(i) ==
    LET first == HandleRequest(reqs[i].request, env)
    IN  IF first.kind = "responded" THEN first.send[1]
        ELSE Resumed(reqs[i].request, reqs[i].outcome).send[1]

\* C21: every output line decodes, and the decoded object reads the same
\* id, result and error as the response object the dispatcher built, also
\* when the id is null or missing or the result is absent; result and
\* error are never both non-null.
ThC21_RoundTrip ==
    \A k \in DOMAIN out :
        LET built == BuiltResponse(out[k].req)
            decoded == JsonParse(out[k].line)
        IN  /\ decoded.ok
            /\ Get(decoded.value, "id") = Get(built, "id")
            /\ Get(decoded.value, "result") = Get(built, "result")
            /\ Get(decoded.value, "error") = Get(built, "error")
            /\ ~(~Nullish(Get(decoded.value, "result"))
                    /\ ~Nullish(Get(decoded.value, "error")))

\* a response built with an undefined result was written without a result
\* property
WitC21_RoundTrip ==
    \E k \in DOMAIN out :
        /\ Get(BuiltResponse(out[k].req), "result") = Undefined
        /\ Has(BuiltResponse(out[k].req), "result")
        /\ ~Has(Response(k), "result")
        /\ Get(Response(k), "error") = Null
        /\ Get(Response(k), "id") = S("1")

\* upstream call c creates a JIRA issue; the issueData it was made from
JiraCreateCall(c) == upstream[c].api = "jira.addNewIssue"

IssueDataOf(c) == ParamsOf(reqs[upstream[c].req].request)

ErrorLine(line) == Len(line) >= 1 /\ line[1] = "[ERROR] "

\* C23: a step of the bridge that writes a Response with a non-null error
\* has written the line '[ERROR] <message>' with that message to the
\* diagnostic channel as its last diagnostic line, ahead of the Response;
\* a step that writes a success Response writes no [ERROR] line.
ThC23_ErrorLineBeforeErrorResponse ==
    [][\A k \in (Len(out) + 1)..Len(out') :
          LET resp == JsonParse(out'[k].line).value
              written == SubSeq(diag', Len(diag) + 1, Len(diag'))
          IN  IF IsErrorResponse(resp)
              THEN /\ written # <<>>
                   /\ written[Len(written)] = <<"[ERROR] ">> \o MessageOf(resp).v
              ELSE \A j \in DOMAIN written : ~ErrorLine(written[j])]_vars

\* one request was answered with an error and one with a result, and the
\* diagnostic channel holds the one [ERROR] line of the first
WitC23_ErrorLineBeforeErrorResponse ==
    \E k, m \in DOMAIN out :
        /\ IsErrorResponse(Response(k))
        /\ ~IsErrorResponse(Response(m))
        /\ \E j \in DOMAIN diag : diag[j] = <<"[ERROR] ">> \o MessageOf(Response(k)).v
        /\ Cardinality({j \in DOMAIN diag : ErrorLine(diag[j])}) = 1

\* the Response handleRequest gives to a request under configuration e
\* when its adapter call, if it makes one, ends as o
ResponseFor(request, e, o) ==
    LET first == HandleRequest(request, e)
    IN  IF first.kind = "responded" THEN first.send[1]
        ELSE Resumed(request, o).send[1]

\* C24: no step of the bridge changes the configuration; the adapter call
\* made for a request, or the error it ends in before any call, is the one
\* determined by that request and the configuration, and the Response
\* written for it is the one determined by the request, the configuration
\* and the outcome of its own upstream call, whatever requests were
\* handled before it.
ThC24_NoStateAcrossRequests ==
    [][/\ env' = env
       /\ \A i \in (Len(reqs) + 1)..Len(reqs') :
             LET first == HandleRequest(reqs'[i].request, env)
             IN  /\ reqs'[i].op = first.op
                 /\ (first.kind = "await" /\ first.adapter.thrown) =>
                        reqs'[i].outcome = Rejected(first.adapter.message)
                 /\ (first.kind = "await" /\ ~first.adapter.thrown) =>
                        /\ Len(upstream') = Len(upstream) + 1
                        /\ upstream'[Len(upstream')] =
                              [req |-> i, api |-> first.adapter.call.api,
                               args |-> first.adapter.call.args]
       /\ \A k \in (Len(out) + 1)..Len(out') :
             LET i == out'[k].req
             IN  out'[k].line =
                    JsonStringify(ResponseFor(reqs'[i].request, env, reqs'[i].outcome))]_vars

\* a request naming no platform, handled after a GitLab request, went to
\* JIRA and was answered
WitC24_NoStateAcrossRequests ==
    /\ Len(reqs) = 2
    /\ PlatformField(reqs[1].request) = Str(GitlabName)
    /\ CallsOf(1) # {}
    /\ NoPlatform(reqs[2].request)
    /\ \E c \in CallsOf(2) : upstream[c].api = "jira.addNewIssue"
    /\ RespOf(2) # {}

\* upstream call c edits a GitLab issue
GitlabEditCall(c) == upstream[c].api = "gitlab.Issues.edit"

\* C25: in the payload of a GitLab update, state_event is 'close' for the
\* state 'close', 'reopen' for every other non-empty state ('closed' and
\* 'opened' among them), and not set when updateData has no state.
ThC25_GitlabStateEvent ==
    \A c \in DOMAIN upstream :
        GitlabEditCall(c) =>
            LET st == Get(UpdateDataOf(c), "state")
                sent == upstream[c].args[3]
            IN  /\ st = S("close") => Get(sent, "state_event") = S("close")
                /\ (st.t = "string" /\ st # EmptyStr /\ st # S("close")) =>
                      Get(sent, "state_event") = S("reopen")
                /\ ~Has(UpdateDataOf(c), "state") => ~Has(sent, "state_event")

\* an update to the state 'closed' was sent upstream as a reopen
WitC25_GitlabStateEvent ==
    \E c \in DOMAIN upstream :
        /\ GitlabEditCall(c)
        /\ Get(UpdateDataOf(c), "state") = S("closed")
        /\ Get(upstream[c].args[3], "state_event") = S("reopen")
        /\ RespOf(upstream[c].req) # {}

\* expand is run against GitLab
ExpandOnGitlab ==
    /\ cli.pc # "none"
    /\ "issueId" \in DOMAIN cli
    /\ cli.command = "expand"
    /\ CliPlatform(cli.option, env) = Str(GitlabName)

\* the issues of the tracker whose id is the <issueId> given to expand
GivenIssues == {k \in DOMAIN project : <<ToString(project[k].iid)>> = ToText(cli.issueId)}

\* the command has read the result of its search
SearchRead == Len(cli.closed) >= 1 /\ ~(Len(cli.closed) = 1 /\ cli.pc = "settled")

\* C26: on GitLab, the parent issue that expand hands to the LLM is the
\* issue whose id is the issueId given, and when the tracker holds no such
\* issue the command reports 'Issue #<id> not found'.
CxC26_ExpandFetchesGivenIssue ==
    ExpandOnGitlab =>
        /\ cli.parent # Undefined =>
              \E k \in GivenIssues :
                  /\ Get(cli.parent, "summary") = S(project[k].title)
                  /\ Get(cli.parent, "description") =
                        Or(project[k].description, S("No description provided."))
        /\ (SearchRead /\ cli.closed[1].outcome.ok /\ GivenIssues = {}) =>
              \E j \in DOMAIN cli.stderr :
                  cli.stderr[j] = <<"Error: ">> \o NotFound(Str(GitlabName), cli.issueId)

\* the platform of the adapter function called for request i
AdapterOf(i) ==
    IF reqs[i].op \in {"jira.createIssue", "jira.updateIssue"} THEN "jira" ELSE "gitlab"

\* request i called createIssue without summary / title, or updateIssue
\* without key / id
CalledWithoutRequiredField(i) ==
    CASE reqs[i].op = "jira.createIssue" -> ~Truthy(Get(reqs[i].data, "summary"))
      [] reqs[i].op = "gitlab.createIssue" -> ~Truthy(Get(reqs[i].data, "title"))
      [] reqs[i].op \in {"jira.updateIssue", "gitlab.updateIssue"} -> ~Truthy(reqs[i].data)
      [] OTHER -> FALSE

\* C27: createIssue or updateIssue of either adapter, called under an
\* incomplete configuration without the summary / title or the key / id,
\* throws the 'Missing required ... configuration' error, which is the
\* message of the Response, and makes no upstream call.
ThC27_ConfigCheckedBeforeValidation ==
    \A i \in DOMAIN reqs :
        (CalledWithoutRequiredField(i) /\ ~MandatorySet(AdapterOf(i), env)) =>
            /\ CallsOf(i) = {}
            /\ reqs[i].outcome = Rejected(MissingConfigMessage(AdapterOf(i)))
            /\ \A k \in RespOf(i) :
                  MessageOf(Response(k)) = Str(MissingConfigMessage(AdapterOf(i)))

\* GitLab createIssue was called without title under a configuration that
\* lacks a mandatory value, and the request was answered
WitC27_ConfigCheckedBeforeValidation ==
    \E i \in DOMAIN reqs :
        /\ reqs[i].op = "gitlab.createIssue"
        /\ CalledWithoutRequiredField(i)
        /\ ~MandatorySet("gitlab", env)
        /\ \E k \in RespOf(i) : MessageOf(Response(k)) = Str(GitlabConfigMessage)

\* request i passed its params as the argument of the adapter function
ParamsPassed(i) ==
    reqs[i].op \in {"jira.createIssue", "gitlab.createIssue", "gitlab.searchIssues"}

\* JIRA createIssue reaches its project key default for request i: the
\* configuration is complete and the argument is an object without a
\* truthy projectKey
DefaultsProjectKey(i) ==
    /\ reqs[i].op = "jira.createIssue"
    /\ MandatorySet("jira", env)
    /\ ParamsOf(reqs[i].request).t = "object"
    /\ ~Truthy(Get(ParamsOf(reqs[i].request), "projectKey"))

\* C28: the object an adapter function was given is, after the call, as it
\* was before, except that JIRA createIssue called without projectKey has
\* set projectKey to JIRA_PROJECT in it, also when the call fails on the
\* summary or upstream.
ThC28_ArgumentsUnchanged ==
    \A i \in DOMAIN reqs :
        ParamsPassed(i) =>
            reqs[i].data =
                IF DefaultsProjectKey(i)
                THEN Put(ParamsOf(reqs[i].request), "projectKey", env.JIRA_PROJECT)
                ELSE ParamsOf(reqs[i].request)

\* a create_issue without projectKey and summary was refused for the
\* summary, and its params now hold the project key
WitC28_ArgumentsUnchanged ==
    \E i \in DOMAIN reqs : \E k \in RespOf(i) :
        /\ DefaultsProjectKey(i)
        /\ ~Has(ParamsOf(reqs[i].request), "projectKey")
        /\ MessageOf(Response(k)) = S("Issue summary is required")
        /\ Get(reqs[i].data, "projectKey") = S("PROJ")

\* the payload fields an update of the platform can set
MappedFields(api) ==
    IF api = "jira.updateIssue" THEN {"summary", "description", "assignee"}
    ELSE {"title", "description", "assignee_id", "labels", "state_event"}

\* the mapped fields whose source in the updateData of call c is truthy
TruthyFields(c) ==
    {f \in MappedFields(upstream[c].api) : Truthy(Get(UpdateDataOf(c), FieldSource(f)))}

\* C29: the payload of an upstream update holds exactly the mapped fields
\* whose value in updateData is truthy, so a field given as '', 0 or null
\* is left out; and an update whose updateData has no truthy mapped field
\* is still sent upstream, once, with a payload that sets no field.
ThC29_TruthinessSelection ==
    /\ \A c \in DOMAIN upstream :
          upstream[c].api \in UpdateApis => PayloadFields(c) = TruthyFields(c)
    /\ \A i \in DOMAIN reqs :
          LET r == reqs[i].request
              platform == IF reqs[i].op = "jira.updateIssue" THEN "jira" ELSE "gitlab"
              mapped == IF platform = "jira" THEN {"summary", "description", "assignee"}
                        ELSE {"title", "description", "assigneeId", "labels", "state"}
              u == Get(ParamsOf(r), "updateData")
          IN  (/\ reqs[i].op \in {"jira.updateIssue", "gitlab.updateIssue"}
               /\ MandatorySet(platform, env)
               /\ Truthy(reqs[i].data)
               /\ u.t = "object"
               /\ \A f \in mapped : ~Truthy(Get(u, f)))
              => /\ Cardinality(CallsOf(i)) = 1
                 /\ \A c \in CallsOf(i) :
                       upstream[c].api \in UpdateApis /\ PayloadFields(c) = {}

\* a GitLab update whose updateData gives title '', assigneeId 0 and labels
\* null was sent upstream with a payload that sets nothing, and answered
WitC29_TruthinessSelection ==
    \E c \in DOMAIN upstream :
        /\ upstream[c].api = "gitlab.Issues.edit"
        /\ Get(UpdateDataOf(c), "title") = EmptyStr
        /\ Get(UpdateDataOf(c), "assigneeId") = Num(0)
        /\ Get(UpdateDataOf(c), "labels") = Null
        /\ PayloadFields(c) = {}
        /\ RespOf(upstream[c].req) # {}

\* parse-prd has got its list of tasks from the LLM
ParsePrdLoop ==
    /\ cli.command = "parse-prd"
    /\ cli.next >= 1

\* the title the k-th request asks for
SentTitle(k) ==
    LET p == ParamsOf(cli.sent[k])
    IN  IF CliPlatform(cli.option, env) = Str(JiraName) THEN Get(p, "summary")
        ELSE Get(p, "title")

CreateApis == {"jira.addNewIssue", "gitlab.Issues.create"}

\* C30: parse-prd sends one create_issue request per task, the k-th
\* request for the k-th task; a request is written to a new child only
\* when every child before it has closed; no request follows one that
\* failed, and the command then ends in its error; nothing but issue
\* creations is ever asked of the tracker, so the issues created before
\* the failure stay.
ThC30_ParsePrdSequential ==
    ParsePrdLoop =>
        /\ Len(cli.sent) <= Len(cli.tasks)
        /\ \A k \in DOMAIN cli.sent :
              /\ MethodOf(cli.sent[k]) = S("create_issue")
              /\ CliPlatform(cli.option, env) \in {Str(JiraName), Str(GitlabName)} =>
                    SentTitle(k) = Get(cli.tasks[k], "summary")
        /\ cli.spawns = Len(cli.sent)
        /\ Len(cli.sent) = Len(cli.closed) + (IF cli.pc = "waiting" THEN 1 ELSE 0)
        /\ cli.pc # "waiting" => status # "running"
        /\ \A k \in DOMAIN cli.closed :
              /\ ~cli.closed[k].outcome.ok =>
                    /\ k = Len(cli.sent)
                    /\ cli.pc \in {"settled", "failed"}
              /\ \A c \in DOMAIN cli.closed[k].calls :
                    cli.closed[k].calls[c].api \in CreateApis
        /\ \A c \in DOMAIN upstream : upstream[c].api \in CreateApis
        /\ cli.pc = "done" =>
              /\ Len(cli.closed) = Len(cli.tasks)
              /\ \A k \in DOMAIN cli.closed : cli.closed[k].outcome.ok

\* of three tasks the first was created, the second failed, and the third
\* was never sent: the command has ended in the error
WitC30_ParsePrdSequential ==
    /\ ParsePrdLoop
    /\ Len(cli.tasks) = 3
    /\ cli.pc = "failed"
    /\ Len(cli.sent) = 2
    /\ Len(cli.closed) = 2
    /\ cli.closed[1].outcome.ok
    /\ cli.closed[1].calls # <<>>
    /\ ~cli.closed[2].outcome.ok

============================================================================
